---- MODULE Spec2Model ----
(***************************************************************************)
(* A model of the TradingDashboard component                               *)
(* (src/src/components/ui/gauge-meter.tsx, lines 88-1478) and of the       *)
(* GoldFlyAnimation child it mounts (src/unnamed/part_002).                *)
(*                                                                         *)
(* The React state of the component is the state of the machine.  Every    *)
(* event handler, timer callback and effect is one action.  A handler that *)
(* awaits (handleTrade) is split at its await: the part after the await    *)
(* runs on the values its closure captured when the handler was called,    *)
(* so the captured values travel in the record of the pending continuation.*)
(*                                                                         *)
(* JavaScript numbers are modelled as exact rationals [n, d] (floating     *)
(* point rounding is not modelled).  Time is counted in seconds; the 750 ms *)
(* await of handleTrade counts as one second, which only adds the          *)
(* interleavings in which it ties with a timeout that is due 250 ms later. *)
(***************************************************************************)
EXTENDS Integers, Sequences, FiniteSets, TLC

(***************************************************************************)
(* Exact rational arithmetic for the JavaScript numbers.  The operations   *)
(* are functions, so that they are applied to values: every operand is     *)
(* evaluated once.                                                         *)
(***************************************************************************)
Abs(x) == IF x < 0 THEN -x ELSE x

\* Euclid's algorithm
gcd[a \in Nat, b \in Nat] == IF b = 0 THEN a ELSE gcd[b, a % b]
GCD(a, b) == gcd[a, b]

Rationals == [n : Int, d : Nat]

rat[num \in Int, den \in Int] ==
  LET s == IF den < 0 THEN -1 ELSE 1
      g == GCD(Abs(num), Abs(den))
  IN  [n |-> (s * num) \div g, d |-> (s * den) \div g]
Rat(num, den) == rat[num, den]

RInt(k) == [n |-> k, d |-> 1]
RZero == RInt(0)

radd[a \in Rationals, b \in Rationals] ==
  LET g == GCD(a.d, b.d)
  IN  Rat(a.n * (b.d \div g) + b.n * (a.d \div g), (a.d \div g) * b.d)
RAdd(a, b) == radd[a, b]

RNeg(a) == [n |-> -a.n, d |-> a.d]
RSub(a, b) == RAdd(a, RNeg(b))

rmul[a \in Rationals, b \in Rationals] ==
  LET g1 == GCD(Abs(a.n), b.d)
      g2 == GCD(Abs(b.n), a.d)
  IN  IF a.n = 0 \/ b.n = 0 THEN RZero
      ELSE [n |-> (a.n \div g1) * (b.n \div g2), d |-> (a.d \div g2) * (b.d \div g1)]
RMul(a, b) == rmul[a, b]

\* Division by a non-zero rational (prices are never 0, see the price floor).
rinv[b \in Rationals] ==
  IF b.n < 0 THEN [n |-> -b.d, d |-> -b.n] ELSE [n |-> b.d, d |-> b.n]
RDiv(a, b) == RMul(a, rinv[b])

\* a < b: by the integer parts, then by the fractional parts (no large products)
rlt[a \in Rationals, b \in Rationals] ==
  LET ia == a.n \div a.d
      ib == b.n \div b.d
      g == GCD(a.d, b.d)
  IN  \/ ia < ib
      \/ ia = ib /\ (a.n % a.d) * (b.d \div g) < (b.n % b.d) * (a.d \div g)
RLt(a, b) == rlt[a, b]
RLe(a, b) == ~RLt(b, a)
RGt(a, b) == RLt(b, a)
RGe(a, b) == ~RLt(a, b)
rmin[a \in Rationals, b \in Rationals] == IF RLt(a, b) THEN a ELSE b
rmax[a \in Rationals, b \in Rationals] == IF RLt(a, b) THEN b ELSE a
RMin(a, b) == rmin[a, b]
RMax(a, b) == rmax[a, b]

(***************************************************************************)
(* Program constants.                                                      *)
(***************************************************************************)
INITIAL_PRICE == 65000
EXTREME_MODE_THRESHOLD == 1000000
GOLDFLY_LOCKOUT_THRESHOLD == 10000000
BITCRASH_LOCKOUT_THRESHOLD == 25000000
\* GOLDFLY_PAYOUT_RATE = 1.4
GOLDFLY_PAYOUT_RATE == Rat(14, 10)
\* result.btcBalance < 0.00000001
DUST_DENOMINATOR == 100000000
\* useState<number>(1000), and the balance a new account is created with
DEFAULT_USD_BALANCE == 1000

\* setTimeout delays, in seconds (750 ms rounded up)
TRADE_DELAY == 1
SETTLEMENT_DELAY == 2
BITCRASH_PREROLL_DELAY == 3
GOLDFLY_ANIMATION_DELAY == 5

\* b < 0.00000001, written so that no product overflows
BelowDust(b) ==
  \/ b.n <= 0
  \/ LET q == b.d \div b.n
     IN  q > DUST_DENOMINATOR \/ (q = DUST_DENOMINATOR /\ b.d % b.n # 0)

(***************************************************************************)
(* Bounds of the model.                                                    *)
(***************************************************************************)
\* user commands (form submits, tab switches, withdraw, logout) per behaviour
MaxCmds == 3
\* price ticks per behaviour
MaxTicks == 1
\* Bit Crash interval callbacks that do not blast, per behaviour
MaxCrashTicks == 2

Users == {"u1"}
NoUser == "none"

\* values.amount of a submitted form: missing (undefined), or a number
NoAmount == [present |-> FALSE, v |-> 0]
Num(x) == [present |-> TRUE, v |-> x]
Amounts == {100, 200}
NonPositive == {0, -100}
FormInputs == {NoAmount} \cup {Num(x) : x \in Amounts \cup NonPositive}

\* formSchema: z.coerce.number().positive().optional()
formSchema(values) == ~values.present \/ values.v > 0

\* The accounts the persistence store may hold when the page is opened: a new
\* account (user-modal.tsx: usdBalance 1000, nothing else), an account that
\* holds 1/325 BTC bought at 71500 and has 100 USD left, and an account whose
\* portfolio is at the extreme-mode threshold.
Account(usd, btc, avg, pl, last) ==
  [usdBalance |-> usd, btcBalance |-> btc, avgBtcCost |-> avg,
   todaysPL |-> pl, lastPrice |-> last]
InitAccounts ==
  { Account(RInt(DEFAULT_USD_BALANCE), RZero, RZero, RZero, RInt(INITIAL_PRICE)),
    Account(RInt(100), Rat(1, 325), RInt(71500), RZero, RInt(INITIAL_PRICE)),
    Account(RInt(EXTREME_MODE_THRESHOLD), RZero, RZero, RZero, RInt(INITIAL_PRICE)) }

(***************************************************************************)
(* State.                                                                  *)
(***************************************************************************)
VARIABLES
  db,                  \* the persistence store: users/<name> -> UserData
  username,            \* useState<string | null>
  usdBalance,          \* cashBalance
  todaysPL,            \* unsettledPL
  btcBalance,          \* assetBalance (state and btcBalanceRef)
  avgBtcCost,          \* avgCost (state and avgBtcCostRef)
  isTrading,           \* the busy flag shared by all three trade modes
  formAmount,          \* the amount field of the shared react-hook-form
  currentPrice,
  priceRegime,         \* state and regimeRef
  trend,               \* state and trendRef
  trendUpdatesLeft,
  tradeMode,           \* the selected tab
  goldFlyState,
  goldFlyBet,
  goldFlyTimer,        \* GoldFlyAnimation: its animation class and end timeout
  bitCrashState,
  gainPercent,
  isTurboRound,
  bitCrashIntervalRef, \* id of the interval the ref holds, 0 for null
  intervals,           \* the live setInterval timers of handleBitCrashFly
  preRolls,            \* pending 3 s timeouts of handleBitCrashFly
  tradeCalls,          \* handleTrade calls waiting in their 750 ms await
  settlements,         \* pending 2 s settlement timeouts
  \* bookkeeping of the model, not program state
  session,             \* number of logins so far (identifies a session)
  nextId,              \* next interval id
  cmds, ticks, crashTicks,
  hist,                \* the buys that built the position and the balance
                       \* before the last GoldFly bet, for the claims
  ev                   \* the last event, for the claims

ledger == <<usdBalance, todaysPL, btcBalance, avgBtcCost>>
price == <<currentPrice, priceRegime, trend, trendUpdatesLeft>>
goldfly == <<goldFlyState, goldFlyBet, goldFlyTimer>>
bitcrash == <<bitCrashState, gainPercent, isTurboRound, bitCrashIntervalRef,
              intervals, preRolls, nextId>>
bounds == <<cmds, ticks, crashTicks>>
vars == <<db, username, ledger, isTrading, formAmount, price, tradeMode,
          goldfly, bitcrash, tradeCalls, settlements, session, bounds, hist, ev>>

NoBet == [direction |-> "none", amount |-> RZero]
NoTimer == [cls |-> "none", left |-> 0, session |-> 0]
NoHist ==
  [qty |-> RZero, cost |-> RZero, sold |-> FALSE, known |-> TRUE,
   preBet |-> RZero, betSession |-> 0]
Ev(kind, type, amount, accepted) ==
  [k |-> kind, type |-> type, amount |-> amount, accepted |-> accepted]

Init ==
  /\ db \in [Users -> InitAccounts]
  /\ username = NoUser
  /\ usdBalance = RInt(DEFAULT_USD_BALANCE)
  /\ todaysPL = RZero
  /\ btcBalance = RZero
  /\ avgBtcCost = RZero
  /\ isTrading = FALSE
  /\ formAmount = NoAmount
  /\ currentPrice = RInt(INITIAL_PRICE)
  /\ priceRegime = "MID"
  /\ trend = "SIDEWAYS"
  /\ trendUpdatesLeft = 0
  /\ tradeMode = "normal"
  /\ goldFlyState = "idle"
  /\ goldFlyBet = NoBet
  /\ goldFlyTimer = NoTimer
  /\ bitCrashState = "idle"
  /\ gainPercent = RZero
  /\ isTurboRound = FALSE
  /\ bitCrashIntervalRef = 0
  /\ intervals = {}
  /\ preRolls = <<>>
  /\ tradeCalls = <<>>
  /\ settlements = <<>>
  /\ session = 0
  /\ nextId = 1
  /\ cmds = 0
  /\ ticks = 0
  /\ crashTicks = 0
  /\ hist = NoHist
  /\ ev = Ev("init", "none", NoAmount, FALSE)

(***************************************************************************)
(* Derived values of a render.                                             *)
(***************************************************************************)
portfolioValue == RAdd(usdBalance, RMul(btcBalance, currentPrice))
\* the effect at 567-581 keeps the state isExtremeMode equal to this
isExtremeMode == RGe(portfolioValue, RInt(EXTREME_MODE_THRESHOLD))
isGoldFlyLocked == RGt(usdBalance, RInt(GOLDFLY_LOCKOUT_THRESHOLD))
isBitCrashLocked == RGt(usdBalance, RInt(BITCRASH_LOCKOUT_THRESHOLD))

\* GoldFlyAnimation is rendered only inside the goldfly tab of a logged-in user
GoldFlyMounted(user, mode) == user # NoUser /\ mode = "goldfly"

\* The animation classes of GoldFlyAnimation (useMemo, part_002 lines 21-30)
AnimationClasses == {"animate-projectile-up", "animate-projectile-down"}

\* The end timeout GoldFlyAnimation holds after a render with the given props:
\* none unless it is mounted with gameState 'running'; a timeout that is
\* already running is kept, a new one is started with a newly drawn class.
GoldFlyTimerAfter(user, mode, state, sess) ==
  IF GoldFlyMounted(user, mode) /\ state = "running"
  THEN IF goldFlyTimer # NoTimer /\ GoldFlyMounted(username, tradeMode)
       THEN {goldFlyTimer}
       ELSE {[cls |-> c, left |-> GOLDFLY_ANIMATION_DELAY, session |-> sess] :
               c \in AnimationClasses}
  ELSE {NoTimer}

(***************************************************************************)
(* Session: handleUserLogin, handleLogout.                                 *)
(***************************************************************************)
RegimeOfLastPrice(lastPrice) ==
  IF RLt(lastPrice, RInt(61000)) THEN "LOW"
  ELSE IF RGt(lastPrice, RInt(75000)) THEN "HIGH"
  ELSE "MID"

handleUserLogin(name) ==
  /\ username = NoUser
  /\ LET userData == db[name] IN
     /\ usdBalance' = userData.usdBalance
     /\ btcBalance' = userData.btcBalance
     /\ avgBtcCost' = userData.avgBtcCost
     /\ todaysPL' = userData.todaysPL
     /\ currentPrice' = userData.lastPrice
     /\ priceRegime' = RegimeOfLastPrice(userData.lastPrice)
     /\ hist' = IF userData.btcBalance = RZero THEN NoHist
                ELSE [NoHist EXCEPT !.known = FALSE]
  /\ username' = name
  /\ session' = session + 1
  /\ goldFlyTimer' \in GoldFlyTimerAfter(name, tradeMode, goldFlyState, session + 1)
  /\ ev' = Ev("login", "none", NoAmount, TRUE)
  /\ UNCHANGED <<db, isTrading, formAmount, trend, trendUpdatesLeft, tradeMode,
                 goldFlyState, goldFlyBet, bitcrash, tradeCalls, settlements, bounds>>

handleLogout ==
  /\ username # NoUser
  /\ cmds < MaxCmds
  /\ cmds' = cmds + 1
  /\ db' = [db EXCEPT ![username].lastPrice = currentPrice,
                      ![username].todaysPL = todaysPL]
  /\ username' = NoUser
  /\ usdBalance' = RZero
  /\ btcBalance' = RZero
  /\ avgBtcCost' = RZero
  /\ todaysPL' = RZero
  /\ hist' = NoHist
  /\ goldFlyTimer' = NoTimer
  /\ ev' = Ev("logout", "none", NoAmount, TRUE)
  /\ UNCHANGED <<isTrading, formAmount, price, tradeMode, goldFlyState, goldFlyBet,
                 bitcrash, tradeCalls, settlements, session, ticks, crashTicks>>

\* Tabs onValueChange: setTradeMode
setTradeMode(mode) ==
  /\ username # NoUser
  /\ mode # tradeMode
  /\ cmds < MaxCmds
  /\ cmds' = cmds + 1
  /\ tradeMode' = mode
  /\ goldFlyTimer' \in GoldFlyTimerAfter(username, mode, goldFlyState, session)
  /\ ev' = Ev("mode", "none", NoAmount, TRUE)
  /\ UNCHANGED <<db, username, ledger, isTrading, formAmount, price, goldFlyState,
                 goldFlyBet, bitcrash, tradeCalls, settlements, session, ticks,
                 crashTicks, hist>>

(***************************************************************************)
(* The ledger: calculateTrade, handleTrade, the settlement timeout.        *)
(***************************************************************************)
\* Two faulty variants of calculateTrade, to test what the claims about the
\* average cost can tell apart: a buy that takes the trade price as the new
\* average cost, and a sell that never resets the average cost.
calculateTradeLastPrice(tradeType, amountInUsd, tradePrice, cur) ==
  LET btcAmount == RDiv(amountInUsd, tradePrice) IN
  IF tradeType = "buy"
  THEN [usdBalance |-> RSub(cur.usdBalance, amountInUsd),
        btcBalance |-> RAdd(cur.btcBalance, btcAmount),
        avgBtcCost |-> tradePrice,
        tradePL |-> RZero, btcAmountTraded |-> btcAmount, saleProceeds |-> RZero]
  ELSE [usdBalance |-> RAdd(cur.usdBalance, amountInUsd),
        btcBalance |-> RSub(cur.btcBalance, btcAmount),
        avgBtcCost |-> IF BelowDust(RSub(cur.btcBalance, btcAmount))
                       THEN RZero ELSE cur.avgBtcCost,
        tradePL |-> RSub(amountInUsd, RMul(btcAmount, cur.avgBtcCost)),
        btcAmountTraded |-> btcAmount, saleProceeds |-> amountInUsd]

calculateTradeNoReset(tradeType, amountInUsd, tradePrice, cur) ==
  LET btcAmount == RDiv(amountInUsd, tradePrice)
      newTotalBtc == RAdd(cur.btcBalance, btcAmount)
  IN
  IF tradeType = "buy"
  THEN [usdBalance |-> RSub(cur.usdBalance, amountInUsd),
        btcBalance |-> newTotalBtc,
        avgBtcCost |-> RDiv(RAdd(RMul(cur.btcBalance, cur.avgBtcCost), amountInUsd),
                            newTotalBtc),
        tradePL |-> RZero, btcAmountTraded |-> btcAmount, saleProceeds |-> RZero]
  ELSE [usdBalance |-> RAdd(cur.usdBalance, amountInUsd),
        btcBalance |-> RSub(cur.btcBalance, btcAmount),
        avgBtcCost |-> cur.avgBtcCost,
        tradePL |-> RSub(amountInUsd, RMul(btcAmount, cur.avgBtcCost)),
        btcAmountTraded |-> btcAmount, saleProceeds |-> amountInUsd]

calculateTrade(tradeType, amountInUsd, tradePrice, cur) ==
  IF tradeType = "buy"
  THEN LET btcAmount == RDiv(amountInUsd, tradePrice)
           costOfNewBtc == amountInUsd
           totalCostOfExistingBtc == RMul(cur.btcBalance, cur.avgBtcCost)
           newTotalBtc == RAdd(cur.btcBalance, btcAmount)
           newTotalCost == RAdd(totalCostOfExistingBtc, costOfNewBtc)
       IN  [usdBalance |-> RSub(cur.usdBalance, costOfNewBtc),
            btcBalance |-> newTotalBtc,
            avgBtcCost |-> IF RGt(newTotalBtc, RZero)
                           THEN RDiv(newTotalCost, newTotalBtc) ELSE RZero,
            tradePL |-> RZero,
            btcAmountTraded |-> btcAmount,
            saleProceeds |-> RZero]
  ELSE LET btcToSell == RDiv(amountInUsd, tradePrice)
           proceedsFromSale == RMul(btcToSell, tradePrice)
           costOfBtcSold == RMul(btcToSell, cur.avgBtcCost)
           tradePL == RSub(proceedsFromSale, costOfBtcSold)
           newBtc == RSub(cur.btcBalance, btcToSell)
       IN  [usdBalance |-> RAdd(cur.usdBalance, proceedsFromSale),
            btcBalance |-> newBtc,
            avgBtcCost |-> IF BelowDust(newBtc) THEN RZero ELSE cur.avgBtcCost,
            tradePL |-> tradePL,
            btcAmountTraded |-> btcToSell,
            saleProceeds |-> proceedsFromSale]

\* A faulty variant of the checks of handleTrade: the balances are not checked.
TradeAcceptedUnchecked(values, type) ==
  formSchema(values) /\ values.present /\ values.v # 0

\* The checks of handleTrade before its await: TRUE when the trade goes on.
\* (The sell button is disabled in extreme mode; the handler rejects it too.)
TradeAccepted(values, type) ==
  /\ formSchema(values)
  /\ values.present /\ values.v # 0
  /\ IF isExtremeMode
     THEN type # "sell" /\ ~RGt(RInt(values.v), usdBalance)
     ELSE /\ ~(type = "buy" /\ RGt(RInt(values.v), usdBalance))
          /\ ~(type = "sell" /\ RGt(RDiv(RInt(values.v), currentPrice), btcBalance))

\* What the closure of an accepted handleTrade call holds during its await.
TradeCall(values, type) ==
  [type |-> type, amountInUsd |-> RInt(values.v), extreme |-> isExtremeMode,
   username |-> username, usdBalance |-> usdBalance, btcBalance |-> btcBalance,
   avgBtcCost |-> avgBtcCost, currentPrice |-> currentPrice, todaysPL |-> todaysPL,
   left |-> TRADE_DELAY, session |-> session, hist |-> hist]

\* A click on Buy or Sell: form.handleSubmit((v) => handleTrade(v, type))
handleTrade(values, type) ==
  /\ username # NoUser /\ tradeMode = "normal"
  /\ ~isTrading
  /\ type = "sell" => ~isExtremeMode
  /\ cmds < MaxCmds
  /\ cmds' = cmds + 1
  /\ formAmount' = values
  /\ IF TradeAccepted(values, type)
     THEN /\ isTrading' = TRUE
          /\ tradeCalls' = Append(tradeCalls, TradeCall(values, type))
     ELSE UNCHANGED <<isTrading, tradeCalls>>
  /\ ev' = Ev("trade", type, values, TradeAccepted(values, type))
  /\ UNCHANGED <<db, username, ledger, price, tradeMode, goldfly, bitcrash,
                 settlements, session, ticks, crashTicks, hist>>

HistAfter(c, result) ==
  IF c.type = "buy"
  THEN [c.hist EXCEPT !.qty = RAdd(@, result.btcAmountTraded),
                      !.cost = RAdd(@, c.amountInUsd)]
  ELSE IF result.btcBalance = RZero THEN NoHist
  ELSE [c.hist EXCEPT !.sold = TRUE]

\* A faulty variant of the step after the await: the trade is computed from
\* the price and the balances of the moment it is applied.
tradeApplyAtCurrentPrice ==
  /\ tradeCalls # <<>>
  /\ LET c == Head(tradeCalls)
         result == calculateTrade(c.type, c.amountInUsd, currentPrice,
                     [usdBalance |-> usdBalance, btcBalance |-> btcBalance,
                      avgBtcCost |-> avgBtcCost])
         newPL == RAdd(c.todaysPL, result.tradePL)
     IN
     /\ c.left = 0 /\ ~c.extreme
     /\ db' = [db EXCEPT ![c.username].usdBalance = result.usdBalance,
                         ![c.username].btcBalance = result.btcBalance,
                         ![c.username].avgBtcCost = result.avgBtcCost]
     /\ usdBalance' = result.usdBalance
     /\ btcBalance' = result.btcBalance
     /\ avgBtcCost' = result.avgBtcCost
     /\ IF c.type = "sell"
        THEN /\ todaysPL' = newPL
             /\ settlements' = Append(settlements,
                  [usdBalance |-> result.usdBalance, newPL |-> newPL,
                   username |-> c.username, left |-> SETTLEMENT_DELAY,
                   session |-> c.session])
        ELSE UNCHANGED <<todaysPL, settlements>>
     /\ hist' = HistAfter(c, result)
     /\ ev' = Ev("apply", c.type, Num(c.amountInUsd.n), TRUE)
  /\ tradeCalls' = Tail(tradeCalls)
  /\ isTrading' = FALSE
  /\ UNCHANGED <<username, formAmount, price, tradeMode, goldfly, bitcrash,
                 session, bounds>>

\* handleTrade after its await, normal mode (lines 892-976)
tradeApply ==
  /\ tradeCalls # <<>>
  /\ LET c == Head(tradeCalls)
         result == calculateTrade(c.type, c.amountInUsd, c.currentPrice,
                     [usdBalance |-> c.usdBalance, btcBalance |-> c.btcBalance,
                      avgBtcCost |-> c.avgBtcCost])
         newPL == RAdd(c.todaysPL, result.tradePL)
     IN
     /\ c.left = 0 /\ ~c.extreme
     /\ db' = [db EXCEPT ![c.username].usdBalance = result.usdBalance,
                         ![c.username].btcBalance = result.btcBalance,
                         ![c.username].avgBtcCost = result.avgBtcCost]
     /\ usdBalance' = result.usdBalance
     /\ btcBalance' = result.btcBalance
     /\ avgBtcCost' = result.avgBtcCost
     /\ IF c.type = "sell"
        THEN /\ todaysPL' = newPL
             /\ settlements' = Append(settlements,
                  [usdBalance |-> result.usdBalance, newPL |-> newPL,
                   username |-> c.username, left |-> SETTLEMENT_DELAY,
                   session |-> c.session])
        ELSE UNCHANGED <<todaysPL, settlements>>
     /\ hist' = HistAfter(c, result)
     /\ ev' = Ev("apply", c.type, Num(c.amountInUsd.n), TRUE)
  /\ tradeCalls' = Tail(tradeCalls)
  /\ isTrading' = FALSE
  /\ UNCHANGED <<username, formAmount, price, tradeMode, goldfly, bitcrash,
                 session, bounds>>

\* handleTrade after its await, extreme mode (lines 833-866)
extremeBetResolve(isWin) ==
  /\ tradeCalls # <<>>
  /\ LET c == Head(tradeCalls)
         payout == IF isWin THEN RMul(c.amountInUsd, Rat(19, 10))
                   ELSE RNeg(c.amountInUsd)
         newUsdBalance == RAdd(c.usdBalance, payout)
     IN
     /\ c.left = 0 /\ c.extreme
     /\ db' = [db EXCEPT ![c.username].usdBalance = newUsdBalance]
     /\ usdBalance' = newUsdBalance
     /\ ev' = Ev("extreme", c.type, Num(c.amountInUsd.n), isWin)
  /\ tradeCalls' = Tail(tradeCalls)
  /\ isTrading' = FALSE
  /\ UNCHANGED <<username, todaysPL, btcBalance, avgBtcCost, formAmount, price,
                 tradeMode, goldfly, bitcrash, settlements, session, bounds, hist>>

\* A faulty variant of the settlement: it stays scheduled and fires again.
settleAgain ==
  /\ settlements # <<>>
  /\ LET s == Head(settlements)
         finalUsdBalance == RAdd(s.usdBalance, s.newPL)
     IN
     /\ s.left = 0
     /\ db' = [db EXCEPT ![s.username].usdBalance = finalUsdBalance,
                         ![s.username].todaysPL = RZero]
     /\ usdBalance' = finalUsdBalance
     /\ todaysPL' = RZero
     /\ settlements' = Append(Tail(settlements), [s EXCEPT !.left = SETTLEMENT_DELAY])
  /\ ev' = Ev("settle", "sell", NoAmount, TRUE)
  /\ UNCHANGED <<username, btcBalance, avgBtcCost, isTrading, formAmount, price,
                 tradeMode, goldfly, bitcrash, tradeCalls, session, bounds, hist>>

\* The settlement timeout of a sell (lines 948-965)
settle ==
  /\ settlements # <<>>
  /\ LET s == Head(settlements)
         currentPL == s.newPL
         finalUsdBalance == RAdd(s.usdBalance, currentPL)
     IN
     /\ s.left = 0
     /\ db' = [db EXCEPT ![s.username].usdBalance = finalUsdBalance,
                         ![s.username].todaysPL = RZero]
     /\ usdBalance' = finalUsdBalance
     /\ todaysPL' = RZero
  /\ settlements' = Tail(settlements)
  /\ ev' = Ev("settle", "sell", NoAmount, TRUE)
  /\ UNCHANGED <<username, btcBalance, avgBtcCost, isTrading, formAmount, price,
                 tradeMode, goldfly, bitcrash, tradeCalls, session, bounds, hist>>

(***************************************************************************)
(* Wager engine A: GoldFly (handleGoldFlyTrade, GoldFlyAnimation, the      *)
(* resolution effect).                                                     *)
(***************************************************************************)
\* A faulty variant of the funds check of the two wagers: every bet is covered.
InsufficientUsdNever(betAmount) == FALSE

\* betAmount > usdBalance, the funds check of handleGoldFlyTrade (line 705)
\* and of handleBitCrashFly (line 728)
InsufficientUsd(betAmount) == RGt(betAmount, usdBalance)

\* A faulty variant of the click on Up or Down: a new bet is taken right away
\* when the last round is still shown as finished.
handleGoldFlyTradeNoReset(values, direction) ==
  /\ username # NoUser /\ tradeMode = "goldfly"
  /\ ~(isTrading \/ isGoldFlyLocked \/ goldFlyState = "running")
  /\ cmds < MaxCmds
  /\ cmds' = cmds + 1
  /\ formAmount' = values
  /\ IF ~formSchema(values) \/ ~values.present \/ values.v = 0
     THEN /\ ev' = Ev("goldfly", direction, values, FALSE)
          /\ UNCHANGED <<usdBalance, isTrading, goldfly, hist>>
     ELSE IF InsufficientUsd(RInt(values.v))
     THEN /\ ev' = Ev("goldfly", direction, values, FALSE)
          /\ UNCHANGED <<usdBalance, isTrading, goldfly, hist>>
     ELSE /\ isTrading' = TRUE
          /\ goldFlyBet' = [direction |-> direction, amount |-> RInt(values.v)]
          /\ goldFlyState' = "running"
          /\ usdBalance' = RSub(usdBalance, RInt(values.v))
          /\ goldFlyTimer' \in
               GoldFlyTimerAfter(username, tradeMode, "running", session)
          /\ hist' = [hist EXCEPT !.preBet = usdBalance, !.betSession = session]
          /\ ev' = Ev("goldfly", direction, values, TRUE)
  /\ UNCHANGED <<db, username, todaysPL, btcBalance, avgBtcCost, price, tradeMode,
                 bitcrash, tradeCalls, settlements, session, ticks, crashTicks>>

\* A faulty variant of the click on Up or Down: isTrading is not looked at.
handleGoldFlyTradeWhileBusy(values, direction) ==
  /\ username # NoUser /\ tradeMode = "goldfly"
  /\ ~(isGoldFlyLocked \/ goldFlyState = "running")
  /\ cmds < MaxCmds
  /\ cmds' = cmds + 1
  /\ formAmount' = values
  /\ IF ~formSchema(values) \/ ~values.present \/ values.v = 0
     THEN /\ ev' = Ev("goldfly", direction, values, FALSE)
          /\ UNCHANGED <<usdBalance, isTrading, goldfly, hist>>
     ELSE IF goldFlyState = "finished"
     THEN /\ goldFlyState' = "idle"
          /\ goldFlyBet' = NoBet
          /\ ev' = Ev("goldflyReset", direction, values, FALSE)
          /\ UNCHANGED <<usdBalance, isTrading, goldFlyTimer, hist>>
     ELSE IF InsufficientUsd(RInt(values.v))
     THEN /\ ev' = Ev("goldfly", direction, values, FALSE)
          /\ UNCHANGED <<usdBalance, isTrading, goldfly, hist>>
     ELSE /\ isTrading' = TRUE
          /\ goldFlyBet' = [direction |-> direction, amount |-> RInt(values.v)]
          /\ goldFlyState' = "running"
          /\ usdBalance' = RSub(usdBalance, RInt(values.v))
          /\ goldFlyTimer' \in
               GoldFlyTimerAfter(username, tradeMode, "running", session)
          /\ hist' = [hist EXCEPT !.preBet = usdBalance, !.betSession = session]
          /\ ev' = Ev("goldfly", direction, values, TRUE)
  /\ UNCHANGED <<db, username, todaysPL, btcBalance, avgBtcCost, price, tradeMode,
                 bitcrash, tradeCalls, settlements, session, ticks, crashTicks>>

\* A click on Up or Down: form.handleSubmit((v) => handleGoldFlyTrade(v, direction))
handleGoldFlyTrade(values, direction) ==
  /\ username # NoUser /\ tradeMode = "goldfly"
  /\ ~(isTrading \/ isGoldFlyLocked \/ goldFlyState = "running")
  /\ cmds < MaxCmds
  /\ cmds' = cmds + 1
  /\ formAmount' = values
  /\ IF ~formSchema(values) \/ ~values.present \/ values.v = 0
     THEN /\ ev' = Ev("goldfly", direction, values, FALSE)
          /\ UNCHANGED <<usdBalance, isTrading, goldfly, hist>>
     ELSE IF goldFlyState = "finished"
     THEN /\ goldFlyState' = "idle"
          /\ goldFlyBet' = NoBet
          /\ ev' = Ev("goldflyReset", direction, values, FALSE)
          /\ UNCHANGED <<usdBalance, isTrading, goldFlyTimer, hist>>
     ELSE IF InsufficientUsd(RInt(values.v))
     THEN /\ ev' = Ev("goldfly", direction, values, FALSE)
          /\ UNCHANGED <<usdBalance, isTrading, goldfly, hist>>
     ELSE /\ isTrading' = TRUE
          /\ goldFlyBet' = [direction |-> direction, amount |-> RInt(values.v)]
          /\ goldFlyState' = "running"
          /\ usdBalance' = RSub(usdBalance, RInt(values.v))
          /\ goldFlyTimer' \in
               GoldFlyTimerAfter(username, tradeMode, "running", session)
          /\ hist' = [hist EXCEPT !.preBet = usdBalance, !.betSession = session]
          /\ ev' = Ev("goldfly", direction, values, TRUE)
  /\ UNCHANGED <<db, username, todaysPL, btcBalance, avgBtcCost, price, tradeMode,
                 bitcrash, tradeCalls, settlements, session, ticks, crashTicks>>

\* Where the plane is when the 5 s timeout measures it.  The keyframes of the
\* two animation classes are not part of the sources; the spec has the class
\* decide on which side of the bet line (50) the flight ends.
FinalAltitude(cls) == IF cls = "animate-projectile-up" THEN 75 ELSE 25

\* A faulty variant of the resolution: the measured altitude is not cleared,
\* so the effect, which runs again when usdBalance changes, finds it again.
goldFlyResolveKeepsAltitude ==
  /\ goldFlyTimer # NoTimer /\ goldFlyTimer.left = 0
  /\ username # NoUser /\ goldFlyBet # NoBet
  /\ LET finalAltitude == FinalAltitude(goldFlyTimer.cls)
         betLineAltitude == 50
         isWin == \/ goldFlyBet.direction = "up" /\ finalAltitude > betLineAltitude
                  \/ goldFlyBet.direction = "down" /\ finalAltitude < betLineAltitude
         winnings == RMul(goldFlyBet.amount, GOLDFLY_PAYOUT_RATE)
         finalUsdBalance == IF isWin THEN RAdd(usdBalance, winnings) ELSE usdBalance
     IN
     /\ db' = [db EXCEPT ![username].usdBalance = finalUsdBalance]
     /\ usdBalance' = finalUsdBalance
     /\ ev' = Ev("goldflyDone", goldFlyBet.direction, Num(goldFlyBet.amount.n), isWin)
  /\ goldFlyState' = "finished"
  /\ isTrading' = FALSE
  /\ formAmount' = Num(goldFlyBet.amount.n)
  /\ goldFlyTimer' = goldFlyTimer
  /\ UNCHANGED <<username, todaysPL, btcBalance, avgBtcCost, price, tradeMode,
                 goldFlyBet, bitcrash, tradeCalls, settlements, session, bounds, hist>>

\* animationEndTimeout -> onAnimationComplete -> the effect at 529-564
goldFlyResolve ==
  /\ goldFlyTimer # NoTimer /\ goldFlyTimer.left = 0
  /\ username # NoUser /\ goldFlyBet # NoBet
  /\ LET finalAltitude == FinalAltitude(goldFlyTimer.cls)
         betLineAltitude == 50
         isWin == \/ goldFlyBet.direction = "up" /\ finalAltitude > betLineAltitude
                  \/ goldFlyBet.direction = "down" /\ finalAltitude < betLineAltitude
         winnings == RMul(goldFlyBet.amount, GOLDFLY_PAYOUT_RATE)
         finalUsdBalance == IF isWin THEN RAdd(usdBalance, winnings) ELSE usdBalance
     IN
     /\ db' = [db EXCEPT ![username].usdBalance = finalUsdBalance]
     /\ usdBalance' = finalUsdBalance
     /\ ev' = Ev("goldflyDone", goldFlyBet.direction, Num(goldFlyBet.amount.n), isWin)
  /\ goldFlyState' = "finished"
  /\ isTrading' = FALSE
  /\ formAmount' = Num(goldFlyBet.amount.n)
  /\ goldFlyTimer' = NoTimer
  /\ UNCHANGED <<username, todaysPL, btcBalance, avgBtcCost, price, tradeMode,
                 goldFlyBet, bitcrash, tradeCalls, settlements, session, bounds, hist>>

(***************************************************************************)
(* Wager engine B: Bit Crash (handleBitCrashFly, its timeout and interval, *)
(* handleBitCrashBlast, handleBitCrashWithdraw).                           *)
(***************************************************************************)
\* A faulty variant of the Fly click: a new stake is taken right away when the
\* last round is still shown.
handleBitCrashFlyNoReset(values) ==
  /\ username # NoUser /\ tradeMode = "bitcrash"
  /\ bitCrashState # "running"
  /\ ~(isTrading \/ isBitCrashLocked)
  /\ cmds < MaxCmds
  /\ cmds' = cmds + 1
  /\ formAmount' = values
  /\ IF ~formSchema(values) \/ ~values.present \/ values.v = 0
     THEN /\ ev' = Ev("fly", "none", values, FALSE)
          /\ UNCHANGED <<isTrading, bitcrash>>
     ELSE IF InsufficientUsd(RInt(values.v))
     THEN /\ ev' = Ev("fly", "none", values, FALSE)
          /\ UNCHANGED <<isTrading, bitcrash>>
     ELSE /\ isTrading' = TRUE
          /\ preRolls' = Append(preRolls,
               [betAmount |-> RInt(values.v), left |-> BITCRASH_PREROLL_DELAY,
                session |-> session])
          /\ ev' = Ev("fly", "none", values, TRUE)
          /\ UNCHANGED <<bitCrashState, gainPercent, isTurboRound,
                         bitCrashIntervalRef, intervals, nextId>>
  /\ UNCHANGED <<db, username, ledger, price, tradeMode, goldfly, tradeCalls,
                 settlements, session, ticks, crashTicks, hist>>

\* A faulty variant of the Fly click: the stake is deducted at the click, not
\* at the end of the pre-roll.
handleBitCrashFlyDeductsAtClick(values) ==
  /\ username # NoUser /\ tradeMode = "bitcrash"
  /\ bitCrashState # "running"
  /\ ~(isTrading \/ isBitCrashLocked)
  /\ cmds < MaxCmds
  /\ cmds' = cmds + 1
  /\ formAmount' = values
  /\ IF ~formSchema(values) \/ ~values.present \/ values.v = 0
     THEN /\ ev' = Ev("fly", "none", values, FALSE)
          /\ UNCHANGED <<usdBalance, isTrading, bitcrash>>
     ELSE IF bitCrashState \in {"blasted", "withdrawn"}
     THEN /\ bitCrashState' = "idle"
          /\ gainPercent' = RZero
          /\ ev' = Ev("flyReset", "none", values, FALSE)
          /\ UNCHANGED <<usdBalance, isTrading, isTurboRound, bitCrashIntervalRef,
                         intervals, preRolls, nextId>>
     ELSE IF InsufficientUsd(RInt(values.v))
     THEN /\ ev' = Ev("fly", "none", values, FALSE)
          /\ UNCHANGED <<usdBalance, isTrading, bitcrash>>
     ELSE /\ isTrading' = TRUE
          /\ usdBalance' = RSub(usdBalance, RInt(values.v))
          /\ preRolls' = Append(preRolls,
               [betAmount |-> RZero, left |-> BITCRASH_PREROLL_DELAY,
                session |-> session])
          /\ ev' = Ev("fly", "none", values, TRUE)
          /\ UNCHANGED <<bitCrashState, gainPercent, isTurboRound,
                         bitCrashIntervalRef, intervals, nextId>>
  /\ UNCHANGED <<db, username, todaysPL, btcBalance, avgBtcCost, price, tradeMode,
                 goldfly, tradeCalls, settlements, session, ticks, crashTicks, hist>>

\* A click on Fly: form.handleSubmit(handleBitCrashFly)
handleBitCrashFly(values) ==
  /\ username # NoUser /\ tradeMode = "bitcrash"
  /\ bitCrashState # "running"
  /\ ~(isTrading \/ isBitCrashLocked)
  /\ cmds < MaxCmds
  /\ cmds' = cmds + 1
  /\ formAmount' = values
  /\ IF ~formSchema(values) \/ ~values.present \/ values.v = 0
     THEN /\ ev' = Ev("fly", "none", values, FALSE)
          /\ UNCHANGED <<isTrading, bitcrash>>
     ELSE IF bitCrashState \in {"blasted", "withdrawn"}
     THEN /\ bitCrashState' = "idle"
          /\ gainPercent' = RZero
          /\ ev' = Ev("flyReset", "none", values, FALSE)
          /\ UNCHANGED <<isTrading, isTurboRound, bitCrashIntervalRef, intervals,
                         preRolls, nextId>>
     ELSE IF InsufficientUsd(RInt(values.v))
     THEN /\ ev' = Ev("fly", "none", values, FALSE)
          /\ UNCHANGED <<isTrading, bitcrash>>
     ELSE /\ isTrading' = TRUE
          /\ preRolls' = Append(preRolls,
               [betAmount |-> RInt(values.v), left |-> BITCRASH_PREROLL_DELAY,
                session |-> session])
          /\ ev' = Ev("fly", "none", values, TRUE)
          /\ UNCHANGED <<bitCrashState, gainPercent, isTurboRound,
                         bitCrashIntervalRef, intervals, nextId>>
  /\ UNCHANGED <<db, username, ledger, price, tradeMode, goldfly, tradeCalls,
                 settlements, session, ticks, crashTicks, hist>>

\* The 3 s timeout of handleBitCrashFly (lines 736-778, up to setInterval)
preRollEnd(isTurbo) ==
  /\ preRolls # <<>>
  /\ LET p == Head(preRolls) IN
     /\ p.left = 0
     /\ usdBalance' = RSub(usdBalance, p.betAmount)
     /\ intervals' = intervals \cup
          {[id |-> nextId, isTurbo |-> isTurbo, betAmount |-> p.betAmount,
            session |-> p.session]}
     /\ ev' = Ev("deduct", "bitcrash", Num(p.betAmount.n), TRUE)
  /\ preRolls' = Tail(preRolls)
  /\ bitCrashState' = "running"
  /\ gainPercent' = RZero
  /\ isTurboRound' = isTurbo
  /\ bitCrashIntervalRef' = nextId
  /\ nextId' = nextId + 1
  /\ UNCHANGED <<db, username, todaysPL, btcBalance, avgBtcCost, isTrading,
                 formAmount, price, tradeMode, goldfly, tradeCalls, settlements,
                 session, bounds, hist>>

\* Math.random() * 0.5 of a Bit Crash tick: the middle of its range
GainDraws == {Rat(1, 4)}

\* A faulty variant of the blast chance table: at a gain of exactly 90 a turbo
\* round is in neither zone.
blastChanceTurboGap(isTurbo, newGain) ==
  IF isTurbo
  THEN IF RGt(newGain, RInt(80)) /\ RLt(newGain, RInt(90)) THEN Rat(25, 100)
       ELSE IF RGt(newGain, RInt(90)) THEN RInt(1)
       ELSE RZero
  ELSE IF RLt(newGain, RInt(15)) THEN Rat(35, 1000)
       ELSE IF RLt(newGain, RInt(30)) THEN Rat(22, 100)
       ELSE IF RLt(newGain, RInt(70)) THEN Rat(43, 100)
       ELSE IF RLt(newGain, RInt(90)) THEN Rat(55, 100)
       ELSE Rat(99, 100)

\* A faulty variant of the blast chance table: the turbo zone starts at a gain
\* of exactly 80.
blastChanceTurboEarly(isTurbo, newGain) ==
  IF isTurbo
  THEN IF RGe(newGain, RInt(80)) /\ RLt(newGain, RInt(90)) THEN Rat(25, 100)
       ELSE IF RGe(newGain, RInt(90)) THEN RInt(1)
       ELSE RZero
  ELSE IF RLt(newGain, RInt(15)) THEN Rat(35, 1000)
       ELSE IF RLt(newGain, RInt(30)) THEN Rat(22, 100)
       ELSE IF RLt(newGain, RInt(70)) THEN Rat(43, 100)
       ELSE IF RLt(newGain, RInt(90)) THEN Rat(55, 100)
       ELSE Rat(99, 100)

\* A faulty variant of the blast chance table: a turbo round never blasts.
blastChanceTurboNever(isTurbo, newGain) ==
  IF isTurbo THEN RZero
  ELSE IF RLt(newGain, RInt(15)) THEN Rat(35, 1000)
       ELSE IF RLt(newGain, RInt(30)) THEN Rat(22, 100)
       ELSE IF RLt(newGain, RInt(70)) THEN Rat(43, 100)
       ELSE IF RLt(newGain, RInt(90)) THEN Rat(55, 100)
       ELSE Rat(99, 100)

\* The blast chance table of the interval callback (lines 754-768)
blastChance(isTurbo, newGain) ==
  IF isTurbo
  THEN IF RGt(newGain, RInt(80)) /\ RLt(newGain, RInt(90)) THEN Rat(25, 100)
       ELSE IF RGe(newGain, RInt(90)) THEN RInt(1)
       ELSE RZero
  ELSE IF RLt(newGain, RInt(15)) THEN Rat(35, 1000)
       ELSE IF RLt(newGain, RInt(30)) THEN Rat(22, 100)
       ELSE IF RLt(newGain, RInt(70)) THEN Rat(43, 100)
       ELSE IF RLt(newGain, RInt(90)) THEN Rat(55, 100)
       ELSE Rat(99, 100)

\* A faulty variant of the interval callback: a blast leaves the interval
\* running.
crashTickNoClear(t, draw, blast) ==
  /\ t \in intervals
  /\ blast \/ crashTicks < MaxCrashTicks
  /\ crashTicks' = IF blast THEN crashTicks ELSE crashTicks + 1
  /\ LET newGain == RAdd(gainPercent, draw) IN
     /\ blast => RGt(RDiv(blastChance(t.isTurbo, newGain), RInt(20)), RZero)
     /\ ~blast => RLt(RDiv(blastChance(t.isTurbo, newGain), RInt(20)), RInt(1))
     /\ IF blast
        THEN \* handleBitCrashBlast
             /\ UNCHANGED <<intervals, bitCrashIntervalRef>>
             /\ bitCrashState' = "blasted"
             /\ isTrading' = FALSE
             /\ isTurboRound' = FALSE
             /\ UNCHANGED gainPercent
        ELSE /\ gainPercent' = newGain
             /\ UNCHANGED <<intervals, bitCrashIntervalRef, bitCrashState,
                            isTrading, isTurboRound>>
  /\ ev' = Ev("crashTick", "bitcrash", NoAmount, blast)
  /\ UNCHANGED <<db, username, ledger, formAmount, price, tradeMode, goldfly,
                 preRolls, nextId, tradeCalls, settlements, session, cmds, ticks,
                 hist>>

\* One callback of the 50 ms interval.  blast is the outcome of
\* Math.random() < blastChance / 20, which can be true only for a chance > 0
\* and false only for a chance below 20.
\* MaxCrashTicks bounds the callbacks that let the round go on; the callback
\* that ends it is not bounded.
crashTick(t, draw, blast) ==
  /\ t \in intervals
  /\ blast \/ crashTicks < MaxCrashTicks
  /\ crashTicks' = IF blast THEN crashTicks ELSE crashTicks + 1
  /\ LET newGain == RAdd(gainPercent, draw) IN
     /\ blast => RGt(RDiv(blastChance(t.isTurbo, newGain), RInt(20)), RZero)
     /\ ~blast => RLt(RDiv(blastChance(t.isTurbo, newGain), RInt(20)), RInt(1))
     /\ IF blast
        THEN \* handleBitCrashBlast
             /\ intervals' = {i \in intervals : i.id # bitCrashIntervalRef}
             /\ bitCrashIntervalRef' = 0
             /\ bitCrashState' = "blasted"
             /\ isTrading' = FALSE
             /\ isTurboRound' = FALSE
             /\ UNCHANGED gainPercent
        ELSE /\ gainPercent' = newGain
             /\ UNCHANGED <<intervals, bitCrashIntervalRef, bitCrashState,
                            isTrading, isTurboRound>>
  /\ ev' = Ev("crashTick", "bitcrash", NoAmount, blast)
  /\ UNCHANGED <<db, username, ledger, formAmount, price, tradeMode, goldfly,
                 preRolls, nextId, tradeCalls, settlements, session, cmds, ticks,
                 hist>>

\* A faulty variant of the withdrawal: the gain is paid, the stake is not.
handleBitCrashWithdrawGainOnly ==
  /\ username # NoUser /\ tradeMode = "bitcrash"
  /\ bitCrashState = "running" /\ isTrading
  /\ cmds < MaxCmds
  /\ cmds' = cmds + 1
  /\ intervals' = {i \in intervals : i.id # bitCrashIntervalRef}
  /\ bitCrashState' = "withdrawn"
  /\ LET betAmount == IF formAmount.present THEN RInt(formAmount.v) ELSE RZero
         profit == RMul(betAmount, RDiv(gainPercent, RInt(100)))
         newBalance == RAdd(usdBalance, profit)
     IN
     /\ db' = [db EXCEPT ![username].usdBalance = newBalance]
     /\ usdBalance' = newBalance
  /\ isTrading' = FALSE
  /\ isTurboRound' = FALSE
  /\ ev' = Ev("withdraw", "bitcrash", formAmount, TRUE)
  /\ UNCHANGED <<username, todaysPL, btcBalance, avgBtcCost, formAmount, price,
                 tradeMode, goldfly, gainPercent, bitCrashIntervalRef, preRolls,
                 nextId, tradeCalls, settlements, session, ticks, crashTicks, hist>>

\* A click on Withdraw
handleBitCrashWithdraw ==
  /\ username # NoUser /\ tradeMode = "bitcrash"
  /\ bitCrashState = "running" /\ isTrading
  /\ cmds < MaxCmds
  /\ cmds' = cmds + 1
  /\ intervals' = {i \in intervals : i.id # bitCrashIntervalRef}
  /\ bitCrashState' = "withdrawn"
  /\ LET betAmount == IF formAmount.present THEN RInt(formAmount.v) ELSE RZero
         profit == RMul(betAmount, RDiv(gainPercent, RInt(100)))
         newBalance == RAdd(RAdd(usdBalance, betAmount), profit)
     IN
     /\ db' = [db EXCEPT ![username].usdBalance = newBalance]
     /\ usdBalance' = newBalance
  /\ isTrading' = FALSE
  /\ isTurboRound' = FALSE
  /\ ev' = Ev("withdraw", "bitcrash", formAmount, TRUE)
  /\ UNCHANGED <<username, todaysPL, btcBalance, avgBtcCost, formAmount, price,
                 tradeMode, goldfly, gainPercent, bitCrashIntervalRef, preRolls,
                 nextId, tradeCalls, settlements, session, ticks, crashTicks, hist>>

(***************************************************************************)
(* The price tick: updatePrice (lines 384-486).                            *)
(***************************************************************************)
priceRegimes ==
  [LOW  |-> [range |-> <<35000, 61000>>, next |-> {"MID"}],
   MID  |-> [range |-> <<61000, 75000>>, next |-> {"LOW", "HIGH"}],
   HIGH |-> [range |-> <<75000, 120000>>, next |-> {"MID"}]]

Trends == {"UP", "DOWN", "SIDEWAYS"}

\* A faulty variant of the regime transition: a tick that leaves LOW or HIGH
\* goes to the other end.
RegimeAfterAcross(regime, leave, midRand) ==
  IF ~leave THEN regime
  ELSE IF regime = "MID" THEN midRand
  ELSE IF regime = "LOW" THEN "HIGH"
  ELSE "LOW"

\* Regime transition.  leave is Math.random() < leaveProb (every leaveProb is
\* strictly between 0 and 1); midRand is where the second draw of a MID tick
\* falls: below 0.1 (LOW), below 0.2 (HIGH), or above (stay).
RegimeAfter(regime, leave, midRand) ==
  IF ~leave THEN regime
  ELSE IF regime = "MID" THEN midRand
  ELSE CHOOSE r \in priceRegimes[regime].next : TRUE

\* Math.log1p(x) for x > 0 is not rational.  It is at least
\* floor(log2(1 + x)) * 0.69, and the term it enters is scaled by a
\* Math.random() of [0, 1), so every pull computed from this lower bound is a
\* pull the code can compute.
RECURSIVE Log2Floor(_)
Log2Floor(k) == IF k < 2 THEN 0 ELSE 1 + Log2Floor(k \div 2)
Log1pLower(x) == RMul(RInt(Log2Floor(1 + (x.n \div x.d))), Rat(69, 100))

\* A faulty variant of the boundary check: the nudge has the wrong sign.
BoundaryCheckAway(newPrice, currentRegimeKey) ==
  LET minRange == RInt(priceRegimes[currentRegimeKey].range[1])
      maxRange == RInt(priceRegimes[currentRegimeKey].range[2])
  IN  IF RLt(newPrice, minRange)
      THEN LET pullStrength ==
                 RMin(Rat(1, 2), RDiv(RSub(minRange, newPrice), minRange))
           IN  RSub(newPrice, RMul(RSub(minRange, newPrice), pullStrength))
      ELSE IF RGt(newPrice, maxRange)
      THEN LET pullStrength ==
                 RMin(Rat(1, 2), RDiv(RSub(newPrice, maxRange), maxRange))
           IN  RAdd(newPrice, RMul(RSub(newPrice, maxRange), pullStrength))
      ELSE newPrice

\* The boundary check (lines 466-474): a price outside the range of the
\* regime is nudged towards the range.
BoundaryCheck(newPrice, currentRegimeKey) ==
  LET minRange == RInt(priceRegimes[currentRegimeKey].range[1])
      maxRange == RInt(priceRegimes[currentRegimeKey].range[2])
  IN  IF RLt(newPrice, minRange)
      THEN LET pullStrength ==
                 RMin(Rat(1, 2), RDiv(RSub(minRange, newPrice), minRange))
           IN  RAdd(newPrice, RMul(RSub(minRange, newPrice), pullStrength))
      ELSE IF RGt(newPrice, maxRange)
      THEN LET pullStrength ==
                 RMin(Rat(1, 2), RDiv(RSub(newPrice, maxRange), maxRange))
           IN  RSub(newPrice, RMul(RSub(newPrice, maxRange), pullStrength))
      ELSE newPrice

\* A faulty variant of the price movement: the absolute floor is left out.
PriceAfterNoFloor(prevPrice, regimeRef, trendRef, currentRegimeKey, avgRef, btcRef, percentageChange, biasRand, pullRand) ==
  LET base == RMul(prevPrice, percentageChange)
      bias == RMul(RMul(prevPrice, Rat(15, 10000)), biasRand)
      biased == IF regimeRef = "MID" /\ trendRef = "UP" THEN RAdd(base, bias)
                ELSE IF regimeRef = "MID" /\ trendRef = "DOWN" THEN RSub(base, bias)
                ELSE base
      unrealizedPL == RMul(RSub(prevPrice, avgRef), btcRef)
      pull == RMul(Log1pLower(unrealizedPL), Rat(1, 10))
      changeAmount ==
        IF RGt(unrealizedPL, RZero) /\ RGt(btcRef, RZero)
        THEN RSub(biased, RMul(RMul(prevPrice, RDiv(pull, RInt(1000))), pullRand))
        ELSE biased
      moved == RAdd(prevPrice, changeAmount)
      nudged == BoundaryCheck(moved, currentRegimeKey)
  IN  nudged

\* A faulty variant of the price movement: the downward pressure goes by the
\* size of the unrealized result, gain or loss.
PriceAfterPullOnLoss(prevPrice, regimeRef, trendRef, currentRegimeKey, avgRef, btcRef, percentageChange, biasRand, pullRand) ==
  LET base == RMul(prevPrice, percentageChange)
      bias == RMul(RMul(prevPrice, Rat(15, 10000)), biasRand)
      biased == IF regimeRef = "MID" /\ trendRef = "UP" THEN RAdd(base, bias)
                ELSE IF regimeRef = "MID" /\ trendRef = "DOWN" THEN RSub(base, bias)
                ELSE base
      unrealizedPL == RMul(RSub(prevPrice, avgRef), btcRef)
      size == IF unrealizedPL.n < 0 THEN RNeg(unrealizedPL) ELSE unrealizedPL
      pull == RMul(Log1pLower(size), Rat(1, 10))
      changeAmount ==
        IF RGt(btcRef, RZero)
        THEN RSub(biased, RMul(RMul(prevPrice, RDiv(pull, RInt(1000))), pullRand))
        ELSE biased
      moved == RAdd(prevPrice, changeAmount)
      nudged == BoundaryCheck(moved, currentRegimeKey)
  IN  RMax(RMul(RInt(priceRegimes.LOW.range[1]), Rat(9, 10)), nudged)

\* Price movement, boundary pull-back and floor (lines 430-477).
\* regimeRef and trendRef are the regime and trend of the last render;
\* currentRegimeKey is the regime after this tick's transition.
PriceAfter(prevPrice, regimeRef, trendRef, currentRegimeKey, avgRef, btcRef, percentageChange, biasRand, pullRand) ==
  LET base == RMul(prevPrice, percentageChange)
      bias == RMul(RMul(prevPrice, Rat(15, 10000)), biasRand)
      biased == IF regimeRef = "MID" /\ trendRef = "UP" THEN RAdd(base, bias)
                ELSE IF regimeRef = "MID" /\ trendRef = "DOWN" THEN RSub(base, bias)
                ELSE base
      unrealizedPL == RMul(RSub(prevPrice, avgRef), btcRef)
      pull == RMul(Log1pLower(unrealizedPL), Rat(1, 10))
      changeAmount ==
        IF RGt(unrealizedPL, RZero) /\ RGt(btcRef, RZero)
        THEN RSub(biased, RMul(RMul(prevPrice, RDiv(pull, RInt(1000))), pullRand))
        ELSE biased
      moved == RAdd(prevPrice, changeAmount)
      nudged == BoundaryCheck(moved, currentRegimeKey)
  IN  RMax(RMul(RInt(priceRegimes.LOW.range[1]), Rat(9, 10)), nudged)

\* The percentage changes the volatility draw can produce (lines 436-442):
\* (Math.random() - 0.5) * 0.01 or * 0.04, or +/- (0.04 + Math.random() * 0.04).
InVolatilityRange(percentageChange) ==
  LET a == IF percentageChange.n < 0 THEN RNeg(percentageChange) ELSE percentageChange
  IN  \/ RGe(percentageChange, Rat(-1, 50)) /\ RLt(percentageChange, Rat(1, 50))
      \/ RGe(a, Rat(1, 25)) /\ RLt(a, Rat(2, 25))

\* What trend bias and pull add to changeAmount (lines 446-462), as PriceAfter
\* computes it.
Drift(prevPrice, regimeRef, trendRef, avgRef, btcRef, biasRand, pullRand) ==
  LET bias == RMul(RMul(prevPrice, Rat(15, 10000)), biasRand)
      unrealizedPL == RMul(RSub(prevPrice, avgRef), btcRef)
      pull == RMul(Log1pLower(unrealizedPL), Rat(1, 10))
  IN  RSub(IF regimeRef = "MID" /\ trendRef = "UP" THEN bias
           ELSE IF regimeRef = "MID" /\ trendRef = "DOWN" THEN RNeg(bias)
           ELSE RZero,
           IF RGt(unrealizedPL, RZero) /\ RGt(btcRef, RZero)
           THEN RMul(RMul(prevPrice, RDiv(pull, RInt(1000))), pullRand)
           ELSE RZero)

\* The percentage changes with which the movement (with the given bias and
\* pull) leads from prevPrice to one of the target prices.
PercentageChanges(targets, prevPrice, drift) ==
  {pc \in {RDiv(RSub(RSub(RInt(t), prevPrice), drift), prevPrice) : t \in targets} :
     InVolatilityRange(pc) /\ pc # RZero}

\* The side of the trend bias a tick adds (lines 446-454), by the regime and
\* trend the refs hold: PriceAfter adds or subtracts its bias term by the same
\* test.
TrendBias(regimeRef, trendRef) ==
  IF regimeRef = "MID" /\ trendRef = "UP" THEN "up"
  ELSE IF regimeRef = "MID" /\ trendRef = "DOWN" THEN "down"
  ELSE "none"

\* A faulty variant of the trend logic: a regime change leaves the duration
\* counter as it is.
TrendLogicNoReset(currentRegimeKey, changed, trendRef, updatesLeft, newTrend, duration) ==
  LET reset == IF changed THEN "SIDEWAYS" ELSE trendRef
  IN  IF currentRegimeKey = "MID"
      THEN IF updatesLeft <= 0 THEN [trend |-> newTrend, left |-> duration]
           ELSE [trend |-> reset, left |-> updatesLeft - 1]
      ELSE [trend |-> "SIDEWAYS", left |-> updatesLeft]

\* A faulty variant of the trend logic: a tick outside MID counts down too.
TrendLogicCountsOffMid(currentRegimeKey, changed, trendRef, updatesLeft, newTrend, duration) ==
  LET left == IF changed THEN 0 ELSE updatesLeft
      reset == IF changed THEN "SIDEWAYS" ELSE trendRef
  IN  IF currentRegimeKey = "MID"
      THEN IF left <= 0 THEN [trend |-> newTrend, left |-> duration]
           ELSE [trend |-> reset, left |-> left - 1]
      ELSE [trend |-> "SIDEWAYS", left |-> left - 1]

\* A faulty variant of the trend logic: the new trend is drawn one tick early.
TrendLogicEarlyRefresh(currentRegimeKey, changed, trendRef, updatesLeft, newTrend, duration) ==
  LET left == IF changed THEN 0 ELSE updatesLeft
      reset == IF changed THEN "SIDEWAYS" ELSE trendRef
  IN  IF currentRegimeKey = "MID"
      THEN IF left <= 1 THEN [trend |-> newTrend, left |-> duration]
           ELSE [trend |-> reset, left |-> left - 1]
      ELSE [trend |-> "SIDEWAYS", left |-> left]

\* The reset on a regime change and the trend logic (lines 406-428): the
\* trend and the duration counter after the tick.  changed is
\* currentRegimeKey !== regimeRef.current; newTrend and duration are the draws
\* the tick makes if it is time for a new trend.
TrendLogic(currentRegimeKey, changed, trendRef, updatesLeft, newTrend, duration) ==
  LET left == IF changed THEN 0 ELSE updatesLeft
      reset == IF changed THEN "SIDEWAYS" ELSE trendRef
  IN  IF currentRegimeKey = "MID"
      THEN IF left <= 0 THEN [trend |-> newTrend, left |-> duration]
           ELSE [trend |-> reset, left |-> left - 1]
      ELSE [trend |-> "SIDEWAYS", left |-> left]

\* The Math.random() draws of a tick, as sets to draw from: leave
\* (Math.random() < leaveProb), the trend, 50 + floor(Math.random() * 100),
\* the Math.random() factors of bias and pull, and the percentage change
\* (given by the price the movement leads to before the boundary check).
\* The ticks of the main specification stay in their regime and draw 0 for the
\* factors of bias and pull; their percentage changes lead to one of two
\* prices.
MainDraws ==
  [leave |-> {FALSE}, trends |-> {"UP"}, durations |-> {50},
   targets |-> {62400, 65000}, units |-> {RZero}]

updatePrice(draws) ==
  /\ username # NoUser /\ tradeMode = "normal"
  /\ ticks < MaxTicks
  /\ ticks' = ticks + 1
  /\ \E leave \in draws.leave,
        midRand \in IF priceRegime = "MID" THEN {"LOW", "HIGH", "MID"} ELSE {"MID"} :
       LET currentRegimeKey == RegimeAfter(priceRegime, leave, midRand)
           changed == currentRegimeKey # priceRegime
       IN
       /\ priceRegime' = currentRegimeKey
       /\ \E newTrend \in draws.trends, duration \in draws.durations :
            LET after == TrendLogic(currentRegimeKey, changed, trend,
                                    trendUpdatesLeft, newTrend, duration)
            IN  /\ trend' = after.trend
                /\ trendUpdatesLeft' = after.left
       /\ \E biasRand \in draws.units, pullRand \in draws.units :
            \E percentageChange \in
                 PercentageChanges(draws.targets, currentPrice,
                   Drift(currentPrice, priceRegime, trend, avgBtcCost,
                         btcBalance, biasRand, pullRand)) :
              currentPrice' = PriceAfter(currentPrice, priceRegime, trend,
                                currentRegimeKey, avgBtcCost, btcBalance,
                                percentageChange, biasRand, pullRand)
  /\ ev' = Ev("tick", TrendBias(priceRegime, trend), NoAmount, TRUE)
  /\ UNCHANGED <<db, username, ledger, isTrading, formAmount, tradeMode, goldfly,
                 bitcrash, tradeCalls, settlements, session, cmds, crashTicks, hist>>

\* The debounced savePrice of the effect at 583-639 writes lastPrice to the
\* store.  The store's lastPrice is read by handleUserLogin only, and every
\* login of the model follows the initial state or a handleLogout, which writes
\* lastPrice itself: savePrice changes nothing the model can observe and is
\* left out.

(***************************************************************************)
(* Time.  A second passes: every pending timeout is a second nearer.  A    *)
(* timeout that is due runs before more time passes.                       *)
(***************************************************************************)
Due(timers) == \E i \in 1..Len(timers) : timers[i].left = 0
Older(timers) == [i \in 1..Len(timers) |-> [timers[i] EXCEPT !.left = @ - 1]]

advanceTime ==
  /\ \/ tradeCalls # <<>> \/ settlements # <<>> \/ preRolls # <<>>
     \/ goldFlyTimer # NoTimer
  /\ ~Due(tradeCalls) /\ ~Due(settlements) /\ ~Due(preRolls)
  /\ goldFlyTimer # NoTimer => goldFlyTimer.left > 0
  /\ tradeCalls' = Older(tradeCalls)
  /\ settlements' = Older(settlements)
  /\ preRolls' = Older(preRolls)
  /\ goldFlyTimer' = IF goldFlyTimer = NoTimer THEN NoTimer
                     ELSE [goldFlyTimer EXCEPT !.left = @ - 1]
  /\ ev' = Ev("time", "none", NoAmount, TRUE)
  /\ UNCHANGED <<db, username, ledger, isTrading, formAmount, price, tradeMode,
                 goldFlyState, goldFlyBet, bitCrashState, gainPercent, isTurboRound,
                 bitCrashIntervalRef, intervals, nextId, session, bounds, hist>>

(***************************************************************************)
(* The specification.                                                      *)
(***************************************************************************)
Next ==
  \/ \E name \in Users : handleUserLogin(name)
  \/ handleLogout
  \/ \E mode \in {"normal", "goldfly", "bitcrash"} : setTradeMode(mode)
  \/ \E values \in FormInputs, type \in {"buy", "sell"} : handleTrade(values, type)
  \/ tradeApply
  \/ \E isWin \in BOOLEAN : extremeBetResolve(isWin)
  \/ settle
  \/ \E values \in FormInputs, direction \in {"up", "down"} :
       handleGoldFlyTrade(values, direction)
  \/ goldFlyResolve
  \/ \E values \in FormInputs : handleBitCrashFly(values)
  \/ \E isTurbo \in BOOLEAN : preRollEnd(isTurbo)
  \/ \E t \in intervals, draw \in GainDraws, blast \in BOOLEAN : crashTick(t, draw, blast)
  \/ handleBitCrashWithdraw
  \/ updatePrice(MainDraws)
  \/ advanceTime

Spec == Init /\ [][Next]_vars

\* The event loop: time passes, and a callback that is due runs.
RunTimers ==
  \/ advanceTime
  \/ tradeApply
  \/ \E isWin \in BOOLEAN : extremeBetResolve(isWin)
  \/ settle
  \/ goldFlyResolve
  \/ \E isTurbo \in BOOLEAN : preRollEnd(isTurbo)

\* The event loop never stops while a timeout is pending.
FairSpec == Spec /\ WF_vars(RunTimers)

\* The tick timeout is set again by every tick (1000 to 1500 ms): while the
\* tick effect is running, the next tick comes.
FairSpecTicks == FairSpec /\ WF_vars(updatePrice(MainDraws))

(***************************************************************************)
(* The wager specification: one new account, one stake, no price ticks,    *)
(* and more commands than the main specification grants, so that rounds of  *)
(* the two wagers and trades can follow one another.                        *)
(***************************************************************************)
\* Commands of a run of the wager specification (cmds starts that far below
\* MaxCmds)
WagerCmds == 6

WagerInputs == {Num(100)}

InitWager ==
  /\ db = [u \in Users |->
             Account(RInt(DEFAULT_USD_BALANCE), RZero, RZero, RZero,
                     RInt(INITIAL_PRICE))]
  /\ username = NoUser
  /\ usdBalance = RInt(DEFAULT_USD_BALANCE)
  /\ todaysPL = RZero
  /\ btcBalance = RZero
  /\ avgBtcCost = RZero
  /\ isTrading = FALSE
  /\ formAmount = NoAmount
  /\ currentPrice = RInt(INITIAL_PRICE)
  /\ priceRegime = "MID"
  /\ trend = "SIDEWAYS"
  /\ trendUpdatesLeft = 0
  /\ tradeMode = "normal"
  /\ goldFlyState = "idle"
  /\ goldFlyBet = NoBet
  /\ goldFlyTimer = NoTimer
  /\ bitCrashState = "idle"
  /\ gainPercent = RZero
  /\ isTurboRound = FALSE
  /\ bitCrashIntervalRef = 0
  /\ intervals = {}
  /\ preRolls = <<>>
  /\ tradeCalls = <<>>
  /\ settlements = <<>>
  /\ session = 0
  /\ nextId = 1
  /\ cmds = MaxCmds - WagerCmds
  /\ ticks = 0
  /\ crashTicks = 0
  /\ hist = NoHist
  /\ ev = Ev("init", "none", NoAmount, FALSE)

NextWager ==
  \/ \E name \in Users : handleUserLogin(name)
  \/ handleLogout
  \/ \E mode \in {"normal", "goldfly", "bitcrash"} : setTradeMode(mode)
  \/ \E values \in WagerInputs, type \in {"buy", "sell"} : handleTrade(values, type)
  \/ tradeApply
  \/ settle
  \/ \E values \in WagerInputs : handleGoldFlyTrade(values, "up")
  \/ goldFlyResolve
  \/ \E values \in WagerInputs : handleBitCrashFly(values)
  \/ preRollEnd(FALSE)
  \/ \E t \in intervals, draw \in GainDraws, blast \in BOOLEAN : crashTick(t, draw, blast)
  \/ handleBitCrashWithdraw
  \/ advanceTime

SpecWager == InitWager /\ [][NextWager]_vars

(***************************************************************************)
(* The tick specification: accounts without BTC that were left at a low, a *)
(* middle and a high price, ticks that may leave their regime, draw any    *)
(* trend and draw a bias factor above 0, and more ticks than the main      *)
(* specification grants.  No trades, no wagers, no tab switches.            *)
(***************************************************************************)
\* Ticks of a run of the tick specification (ticks starts that far below
\* MaxTicks)
TickSteps == 4

TickAccounts ==
  {Account(RInt(DEFAULT_USD_BALANCE), RZero, RZero, RZero, RInt(33000)),
   Account(RInt(DEFAULT_USD_BALANCE), RZero, RZero, RZero, RInt(INITIAL_PRICE)),
   Account(RInt(DEFAULT_USD_BALANCE), RZero, RZero, RZero, RInt(100000))}

\* Two prices a tick can always move to: the next multiple of 1000 above
\* 104.2 % and the last one below 95.8 % of the price (a swing of 4 to 8 %
\* is within the 2 % branch of the volatility draw at every price above the
\* floor).
StepTargets(prevPrice) ==
  LET whole == prevPrice.n \div prevPrice.d
  IN  {1000 * ((whole * 1042) \div 1000000 + 1),
       1000 * ((whole * 958) \div 1000000)}

\* Ticks that may leave their regime, draw any trend and draw a bias factor
\* of 0 or 2/3 (no account of this specification holds BTC, so there is no
\* pull).
TickDraws ==
  [leave |-> BOOLEAN, trends |-> Trends, durations |-> {50},
   targets |-> {30800, 31500, 33600, 62400, 65000, 95000, 100000}
                 \cup StepTargets(currentPrice),
   units |-> {RZero, Rat(2, 3)}]

InitTick ==
  /\ db \in [Users -> TickAccounts]
  /\ username = NoUser
  /\ usdBalance = RInt(DEFAULT_USD_BALANCE)
  /\ todaysPL = RZero
  /\ btcBalance = RZero
  /\ avgBtcCost = RZero
  /\ isTrading = FALSE
  /\ formAmount = NoAmount
  /\ currentPrice = RInt(INITIAL_PRICE)
  /\ priceRegime = "MID"
  /\ trend = "SIDEWAYS"
  /\ trendUpdatesLeft = 0
  /\ tradeMode = "normal"
  /\ goldFlyState = "idle"
  /\ goldFlyBet = NoBet
  /\ goldFlyTimer = NoTimer
  /\ bitCrashState = "idle"
  /\ gainPercent = RZero
  /\ isTurboRound = FALSE
  /\ bitCrashIntervalRef = 0
  /\ intervals = {}
  /\ preRolls = <<>>
  /\ tradeCalls = <<>>
  /\ settlements = <<>>
  /\ session = 0
  /\ nextId = 1
  /\ cmds = 0
  /\ ticks = MaxTicks - TickSteps
  /\ crashTicks = 0
  /\ hist = NoHist
  /\ ev = Ev("init", "none", NoAmount, FALSE)

NextTick ==
  \/ \E name \in Users : handleUserLogin(name)
  \/ updatePrice(TickDraws)

SpecTick == InitTick /\ [][NextTick]_vars

(***************************************************************************)
(* The trend specification: the page as an earlier session left it, with   *)
(* any trend and with a duration counter that has just been drawn or has   *)
(* nearly run down (a counter runs down over 50 to 149 ticks), and ticks    *)
(* that draw the shortest and the longest duration.                        *)
(***************************************************************************)
\* Ticks of a run of the trend specification (ticks starts that far below
\* MaxTicks)
TrendSteps == 3

\* trendUpdatesLeft.current at the start: run down, nearly run down, and the
\* longest duration just drawn
TrendLefts == {0, 1, 2, 149}

\* The duration a tick draws (line 422): 50 + Math.floor(Math.random() * 100)
TrendDuration(rand) == 50 + ((100 * rand.n) \div rand.d)

\* Ticks that may leave their regime, draw any trend, and draw their
\* duration with a Math.random() of 0, of 1/2 or of nearly 1.
TrendDraws ==
  [leave |-> BOOLEAN, trends |-> Trends,
   durations |-> {TrendDuration(r) : r \in {RZero, Rat(1, 2), Rat(999, 1000)}},
   targets |-> StepTargets(currentPrice), units |-> {RZero}]

InitTrend ==
  /\ db \in [Users -> TickAccounts]
  /\ username = NoUser
  /\ usdBalance = RInt(DEFAULT_USD_BALANCE)
  /\ todaysPL = RZero
  /\ btcBalance = RZero
  /\ avgBtcCost = RZero
  /\ isTrading = FALSE
  /\ formAmount = NoAmount
  /\ currentPrice = RInt(INITIAL_PRICE)
  /\ priceRegime = "MID"
  /\ trend \in Trends
  /\ trendUpdatesLeft \in TrendLefts
  /\ tradeMode = "normal"
  /\ goldFlyState = "idle"
  /\ goldFlyBet = NoBet
  /\ goldFlyTimer = NoTimer
  /\ bitCrashState = "idle"
  /\ gainPercent = RZero
  /\ isTurboRound = FALSE
  /\ bitCrashIntervalRef = 0
  /\ intervals = {}
  /\ preRolls = <<>>
  /\ tradeCalls = <<>>
  /\ settlements = <<>>
  /\ session = 0
  /\ nextId = 1
  /\ cmds = 0
  /\ ticks = MaxTicks - TrendSteps
  /\ crashTicks = 0
  /\ hist = NoHist
  /\ ev = Ev("init", "none", NoAmount, FALSE)

NextTrend ==
  \/ \E name \in Users : handleUserLogin(name)
  \/ updatePrice(TrendDraws)

SpecTrend == InitTrend /\ [][NextTrend]_vars

(***************************************************************************)
(* The gains specification: accounts that hold BTC at an unrealized gain,  *)
(* at an unrealized loss and at break-even, and an account without BTC,    *)
(* under ticks whose downward pressure draws a factor of 0 or of 10/69.    *)
(* No trades: every position stays as the account holds it.                *)
(***************************************************************************)
\* Ticks of a run of the gains specification (ticks starts that far below
\* MaxTicks)
GainSteps == 3

\* All left at 65000, with 100 or 1000 USD: no BTC; 1/325 BTC bought at 58500
\* (gain), at 71500 (loss) and at 65000 (break-even).
GainAccounts ==
  {Account(RInt(usd), pos[1], pos[2], RZero, RInt(INITIAL_PRICE)) :
     usd \in {100, DEFAULT_USD_BALANCE},
     pos \in {<<RZero, RZero>>, <<Rat(1, 325), RInt(58500)>>,
              <<Rat(1, 325), RInt(71500)>>, <<Rat(1, 325), RInt(INITIAL_PRICE)>>}}

\* Ticks that stay in their regime, lead to prices inside its band and draw
\* a factor of 0 or of 10/69 for bias and pressure.
GainsDraws ==
  [leave |-> {FALSE}, trends |-> {"UP"}, durations |-> {50},
   targets |-> {62400, 63000, 65000, 66000, 68000, 70000},
   units |-> {RZero, Rat(10, 69)}]

InitGains ==
  /\ db \in [Users -> GainAccounts]
  /\ username = NoUser
  /\ usdBalance = RInt(DEFAULT_USD_BALANCE)
  /\ todaysPL = RZero
  /\ btcBalance = RZero
  /\ avgBtcCost = RZero
  /\ isTrading = FALSE
  /\ formAmount = NoAmount
  /\ currentPrice = RInt(INITIAL_PRICE)
  /\ priceRegime = "MID"
  /\ trend = "SIDEWAYS"
  /\ trendUpdatesLeft = 0
  /\ tradeMode = "normal"
  /\ goldFlyState = "idle"
  /\ goldFlyBet = NoBet
  /\ goldFlyTimer = NoTimer
  /\ bitCrashState = "idle"
  /\ gainPercent = RZero
  /\ isTurboRound = FALSE
  /\ bitCrashIntervalRef = 0
  /\ intervals = {}
  /\ preRolls = <<>>
  /\ tradeCalls = <<>>
  /\ settlements = <<>>
  /\ session = 0
  /\ nextId = 1
  /\ cmds = 0
  /\ ticks = MaxTicks - GainSteps
  /\ crashTicks = 0
  /\ hist = NoHist
  /\ ev = Ev("init", "none", NoAmount, FALSE)

NextGains ==
  \/ \E name \in Users : handleUserLogin(name)
  \/ updatePrice(GainsDraws)

SpecGains == InitGains /\ [][NextGains]_vars

(***************************************************************************)
(* The threshold specification: one session of an account whose portfolio  *)
(* is at the extreme-mode threshold or a tick of the price below it, with  *)
(* trades, bets, settlements and the tick.  No logout, no wagers.          *)
(***************************************************************************)
\* An account with 1,000,000 USD, and an account left at 62400 with 999,805
\* USD and 1/325 BTC bought at 71500: worth 999,997 there and 1,000,005 at
\* 65000.
ThresholdAccounts ==
  {Account(RInt(EXTREME_MODE_THRESHOLD), RZero, RZero, RZero, RInt(INITIAL_PRICE)),
   Account(RInt(999805), Rat(1, 325), RInt(71500), RZero, RInt(62400))}

InitThreshold ==
  /\ db \in [Users -> ThresholdAccounts]
  /\ username = NoUser
  /\ usdBalance = RInt(DEFAULT_USD_BALANCE)
  /\ todaysPL = RZero
  /\ btcBalance = RZero
  /\ avgBtcCost = RZero
  /\ isTrading = FALSE
  /\ formAmount = NoAmount
  /\ currentPrice = RInt(INITIAL_PRICE)
  /\ priceRegime = "MID"
  /\ trend = "SIDEWAYS"
  /\ trendUpdatesLeft = 0
  /\ tradeMode = "normal"
  /\ goldFlyState = "idle"
  /\ goldFlyBet = NoBet
  /\ goldFlyTimer = NoTimer
  /\ bitCrashState = "idle"
  /\ gainPercent = RZero
  /\ isTurboRound = FALSE
  /\ bitCrashIntervalRef = 0
  /\ intervals = {}
  /\ preRolls = <<>>
  /\ tradeCalls = <<>>
  /\ settlements = <<>>
  /\ session = 0
  /\ nextId = 1
  /\ cmds = 0
  /\ ticks = 0
  /\ crashTicks = 0
  /\ hist = NoHist
  /\ ev = Ev("init", "none", NoAmount, FALSE)

NextThreshold ==
  \/ \E name \in Users : handleUserLogin(name)
  \/ \E values \in FormInputs, type \in {"buy", "sell"} : handleTrade(values, type)
  \/ tradeApply
  \/ \E isWin \in BOOLEAN : extremeBetResolve(isWin)
  \/ settle
  \/ updatePrice(MainDraws)
  \/ advanceTime

SpecThreshold == InitThreshold /\ [][NextThreshold]_vars

(***************************************************************************)
(* The position specification: calculateTrade applied to the position of    *)
(* a logged-in user, trade after trade, with amounts that are not whole     *)
(* dollars (the amount field takes any positive number).  A trade is the    *)
(* checks of handleTrade, its await and the ledger update in one step; the  *)
(* price does not tick, so every trade of a behaviour is made at the price  *)
(* the account was left at.  The settlement of the realised P&L is not     *)
(* part of this specification.                                             *)
(***************************************************************************)
\* trades per behaviour
LedgerCmds == 2

\* values.amount as a number: a twentieth of a cent, and whole dollars
LedgerAmounts == {Rat(1, 2000), RInt(50), RInt(100), RInt(200), RInt(300)}

\* new accounts, left at three prices
LedgerAccounts ==
  { Account(RInt(DEFAULT_USD_BALANCE), RZero, RZero, RZero, RInt(last)) :
      last \in {40000, INITIAL_PRICE, 2 * INITIAL_PRICE} }

\* The checks of handleTrade before its await, normal mode
LedgerTradeAccepted(type, amountInUsd) ==
  /\ RGt(amountInUsd, RZero)
  /\ ~(type = "buy" /\ RGt(amountInUsd, usdBalance))
  /\ ~(type = "sell" /\ RGt(RDiv(amountInUsd, currentPrice), btcBalance))

\* An accepted handleTrade call, from the click to the ledger update
tradeToCompletion(type, amountInUsd) ==
  /\ username # NoUser /\ tradeMode = "normal"
  /\ ~isTrading /\ ~isExtremeMode
  /\ cmds < MaxCmds
  /\ LedgerTradeAccepted(type, amountInUsd)
  /\ LET result == calculateTrade(type, amountInUsd, currentPrice,
                     [usdBalance |-> usdBalance, btcBalance |-> btcBalance,
                      avgBtcCost |-> avgBtcCost])
     IN
     /\ db' = [db EXCEPT ![username].usdBalance = result.usdBalance,
                         ![username].btcBalance = result.btcBalance,
                         ![username].avgBtcCost = result.avgBtcCost]
     /\ usdBalance' = result.usdBalance
     /\ btcBalance' = result.btcBalance
     /\ avgBtcCost' = result.avgBtcCost
     /\ todaysPL' = RAdd(todaysPL, result.tradePL)
  /\ cmds' = cmds + 1
  /\ formAmount' = Num(amountInUsd)
  /\ ev' = Ev("position", type, Num(amountInUsd), TRUE)
  /\ UNCHANGED <<username, isTrading, price, tradeMode, goldfly, bitcrash,
                 tradeCalls, settlements, session, ticks, crashTicks, hist>>

InitLedger ==
  /\ db \in [Users -> LedgerAccounts]
  /\ username = NoUser
  /\ usdBalance = RInt(DEFAULT_USD_BALANCE)
  /\ todaysPL = RZero
  /\ btcBalance = RZero
  /\ avgBtcCost = RZero
  /\ isTrading = FALSE
  /\ formAmount = NoAmount
  /\ currentPrice = RInt(INITIAL_PRICE)
  /\ priceRegime = "MID"
  /\ trend = "SIDEWAYS"
  /\ trendUpdatesLeft = 0
  /\ tradeMode = "normal"
  /\ goldFlyState = "idle"
  /\ goldFlyBet = NoBet
  /\ goldFlyTimer = NoTimer
  /\ bitCrashState = "idle"
  /\ gainPercent = RZero
  /\ isTurboRound = FALSE
  /\ bitCrashIntervalRef = 0
  /\ intervals = {}
  /\ preRolls = <<>>
  /\ tradeCalls = <<>>
  /\ settlements = <<>>
  /\ session = 0
  /\ nextId = 1
  /\ cmds = MaxCmds - LedgerCmds
  /\ ticks = 0
  /\ crashTicks = 0
  /\ hist = NoHist
  /\ ev = Ev("init", "none", NoAmount, FALSE)

NextLedger ==
  \/ \E name \in Users : handleUserLogin(name)
  \/ \E type \in {"buy", "sell"}, amountInUsd \in LedgerAmounts :
       tradeToCompletion(type, amountInUsd)

SpecLedger == InitLedger /\ [][NextLedger]_vars

(***************************************************************************)
(* The crash specification: a Bit Crash round that has been running for a  *)
(* while.  A round reaches a gain of 15 or of 80 only after dozens of       *)
(* interval callbacks, so the behaviours start in the middle of a round, at *)
(* a gain just below one of the steps of the blast chance table, with the   *)
(* stake of 100 deducted from a new account.  New rounds that follow are    *)
(* standard rounds.                                                        *)
(***************************************************************************)
\* interval callbacks that do not blast, per behaviour
CrashSteps == 3

\* <<isTurbo, gainPercent>> of the round that is running at the start
CrashRounds ==
  ({FALSE} \X {RZero, Rat(59, 4), Rat(119, 4), Rat(279, 4), Rat(359, 4)})
  \cup ({TRUE} \X {Rat(159, 2), Rat(319, 4), Rat(179, 2), Rat(359, 4)})

CrashStake == 100

InitCrash ==
  /\ db = [u \in Users |->
             Account(RInt(DEFAULT_USD_BALANCE), RZero, RZero, RZero, RInt(INITIAL_PRICE))]
  /\ username \in Users
  /\ usdBalance = RInt(DEFAULT_USD_BALANCE - CrashStake)
  /\ todaysPL = RZero
  /\ btcBalance = RZero
  /\ avgBtcCost = RZero
  /\ isTrading = TRUE
  /\ formAmount = Num(CrashStake)
  /\ currentPrice = RInt(INITIAL_PRICE)
  /\ priceRegime = "MID"
  /\ trend = "SIDEWAYS"
  /\ trendUpdatesLeft = 0
  /\ tradeMode = "bitcrash"
  /\ goldFlyState = "idle"
  /\ goldFlyBet = NoBet
  /\ goldFlyTimer = NoTimer
  /\ bitCrashState = "running"
  /\ \E round \in CrashRounds :
       /\ isTurboRound = round[1]
       /\ gainPercent = round[2]
       /\ intervals = {[id |-> 1, isTurbo |-> round[1],
                        betAmount |-> RInt(CrashStake), session |-> 1]}
  /\ bitCrashIntervalRef = 1
  /\ preRolls = <<>>
  /\ tradeCalls = <<>>
  /\ settlements = <<>>
  /\ session = 1
  /\ nextId = 2
  /\ cmds = 0
  /\ ticks = 0
  /\ crashTicks = MaxCrashTicks - CrashSteps
  /\ hist = NoHist
  /\ ev = Ev("crashTick", "bitcrash", NoAmount, FALSE)

\* A callback of the interval whose blast draw fails: the gain grows
crashTickGoesOn ==
  \E t \in intervals, draw \in GainDraws : crashTick(t, draw, FALSE)

\* A callback of the interval whose blast draw comes true
crashTickBlasts ==
  \E t \in intervals, draw \in GainDraws : crashTick(t, draw, TRUE)

NextCrash ==
  \/ \E name \in Users : handleUserLogin(name)
  \/ handleLogout
  \/ \E mode \in {"normal", "goldfly", "bitcrash"} : setTradeMode(mode)
  \/ \E values \in WagerInputs : handleBitCrashFly(values)
  \/ preRollEnd(FALSE)
  \/ crashTickGoesOn
  \/ crashTickBlasts
  \/ handleBitCrashWithdraw
  \/ advanceTime

SpecCrash == InitCrash /\ [][NextCrash]_vars

\* The event loop keeps running due timeouts, the 50 ms interval keeps firing
\* while it is live, and a blast draw that is possible again and again comes
\* true at some callback.
FairSpecCrash ==
  SpecCrash /\ WF_vars(RunTimers) /\ WF_vars(crashTickGoesOn)
            /\ SF_vars(crashTickBlasts)

(***************************************************************************)
(* The claims.                                                             *)
(***************************************************************************)
\* A callback belongs to an ended session when the session it was started in
\* is not the one that is logged in now.
Ended(sess) == sess # session \/ username = NoUser

\* C1: when the settlement of a sell fires (in the session of the sell),
\* usdBalance becomes its value immediately before the settlement plus the P&L
\* snapshot taken at the sell, and todaysPL decreases by that amount, so that
\* what was applied to usdBalance between the sell and its settlement is kept.
C1_SettlementAddsSnapshot ==
  [][(settle /\ ~Ended(Head(settlements).session)) =>
       /\ usdBalance' = RAdd(usdBalance, Head(settlements).newPL)
       /\ todaysPL' = RSub(todaysPL, Head(settlements).newPL)]_vars

\* C2: across the step that applies an accepted trade (in the session of the
\* trade), usdBalance changes by exactly -amount for a buy and by exactly
\* +amount for a sell; the P&L of the trade is not part of the change.
C2_LedgerConservation ==
  [][(tradeApply /\ ~Ended(Head(tradeCalls).session)) =>
       usdBalance' = IF Head(tradeCalls).type = "buy"
                     THEN RSub(usdBalance, Head(tradeCalls).amountInUsd)
                     ELSE RAdd(usdBalance, Head(tradeCalls).amountInUsd)]_vars

\* The conditions under which C3 has a buy or sell rejected.
TradeRejectCondition(values, type) ==
  \/ ~values.present
  \/ values.v <= 0
  \/ type = "buy" /\ RGt(RInt(values.v), usdBalance)
  \/ type = "sell" /\ RGt(RDiv(RInt(values.v), currentPrice), btcBalance)

\* C3: a buy or sell whose amount is missing or not positive, a buy of more
\* than usdBalance and a sell of more than btcBalance are rejected: usdBalance,
\* btcBalance, avgBtcCost, todaysPL and the stored account stay as they are, no
\* trade is left waiting to be applied and no settlement is scheduled.
C3_RejectedTradeChangesNothing ==
  [][\A values \in FormInputs, type \in {"buy", "sell"} :
       (handleTrade(values, type) /\ TradeRejectCondition(values, type)) =>
         UNCHANGED <<ledger, db, isTrading, tradeCalls, settlements>>]_vars

\* A buy of more than usdBalance has just been rejected.
C3_Witness ==
  /\ username # NoUser
  /\ ev.k = "trade" /\ ev.type = "buy" /\ ~ev.accepted
  /\ ev.amount.present /\ ev.amount.v > 0
  /\ RGt(RInt(ev.amount.v), usdBalance)

\* C4 as the specification states it: right after a buy is applied,
\* avgBtcCost is the quantity-weighted mean of the prices of all buys made
\* since btcBalance was last zero (their total cost over their total quantity).
C4_AvgCostIsMeanOfAllBuys ==
  (ev.k = "apply" /\ ev.type = "buy" /\ hist.known) =>
     avgBtcCost = RDiv(hist.cost, hist.qty)

\* C4, amended: right after a buy is applied, avgBtcCost is the
\* quantity-weighted mean of the prices of all buys made since btcBalance was
\* last zero, provided no sell was applied since then.
C4_AvgCostIsMeanOfBuysWithoutSell ==
  (ev.k = "apply" /\ ev.type = "buy" /\ hist.known /\ ~hist.sold) =>
     avgBtcCost = RDiv(hist.cost, hist.qty)

\* A second buy at another price has just been applied, with no sell before.
C4_Witness ==
  /\ ev.k = "apply" /\ ev.type = "buy" /\ hist.known /\ ~hist.sold
  /\ RGt(hist.cost, RInt(ev.amount.v))
  /\ RGt(avgBtcCost, RInt(62400)) /\ RLt(avgBtcCost, RInt(65000))

\* C5: the step that applies a sell leaves avgBtcCost at the value it had when
\* the sell was issued, unless the resulting btcBalance is below 1e-8, and then
\* avgBtcCost becomes 0; as long as the session of the sell goes on, the value
\* it had when the sell was issued is its value right before the step.
C5_SellKeepsAvgCost ==
  [][(tradeApply /\ Head(tradeCalls).type = "sell") =>
       /\ avgBtcCost' = IF BelowDust(btcBalance') THEN RZero
                        ELSE Head(tradeCalls).avgBtcCost
       /\ ~Ended(Head(tradeCalls).session) =>
            Head(tradeCalls).avgBtcCost = avgBtcCost]_vars

\* A sell of a part of the position has just been applied.
C5_Witness ==
  /\ username # NoUser
  /\ ev.k = "apply" /\ ev.type = "sell"
  /\ ~BelowDust(btcBalance) /\ avgBtcCost # RZero

\* C6: no settlement, Bit Crash pre-roll, Bit Crash tick or GoldFly resolution
\* that was started in a session runs after the logout that ended the session.
C6_NoCallbackAfterLogout ==
  [][/\ settle => ~Ended(Head(settlements).session)
     /\ (\E isTurbo \in BOOLEAN : preRollEnd(isTurbo)) =>
          ~Ended(Head(preRolls).session)
     /\ \A t \in intervals, draw \in GainDraws, blast \in BOOLEAN :
          crashTick(t, draw, blast) => ~Ended(t.session)
     /\ goldFlyResolve => ~Ended(goldFlyTimer.session)]_vars

\* C7: a logout while a settlement of the session is pending flushes it: the
\* stored usdBalance is credited with todaysPL, the stored todaysPL is 0, and
\* no settlement of the session stays scheduled.
C7_LogoutFlushesSettlement ==
  [][(handleLogout /\ \E i \in 1..Len(settlements) : ~Ended(settlements[i].session)) =>
       /\ db'[username].usdBalance = RAdd(usdBalance, todaysPL)
       /\ db'[username].todaysPL = RZero
       /\ \A i \in 1..Len(settlements') : settlements'[i].session # session]_vars

C9_StakeDeductionKeepsCashNonNegative ==
  (/\ username # NoUser
   /\ \/ ev.k = "deduct"
      \/ ev.k = "goldfly" /\ ev.accepted) =>
     RGe(usdBalance, RZero)

\* The conditions under which C10 has the start of a wager rejected.
StakeRejectCondition(values) ==
  \/ ~values.present
  \/ values.v <= 0
  \/ RGt(RInt(values.v), usdBalance)

\* C10 as the specification states it: a start of GoldFly or of Bit Crash
\* with a missing or non-positive stake or a stake above usdBalance deducts
\* nothing, starts no timer, and leaves the balances and the whole state of
\* the wager unchanged.
C10_RejectedStartChangesNothing ==
  [][/\ \A values \in FormInputs, direction \in {"up", "down"} :
          (handleGoldFlyTrade(values, direction) /\ StakeRejectCondition(values)) =>
            UNCHANGED <<ledger, db, isTrading, goldfly, bitcrash>>
     /\ \A values \in FormInputs :
          (handleBitCrashFly(values) /\ StakeRejectCondition(values)) =>
            UNCHANGED <<ledger, db, isTrading, goldfly, bitcrash>>]_vars

\* C10, amended: such a start deducts nothing, starts no timer and leaves the
\* balances unchanged; it leaves the state of the wager unchanged too, except
\* that a positive stake above usdBalance, clicked while the last round is
\* still shown (GoldFly finished, Bit Crash blasted or withdrawn), puts the
\* wager back to idle (GoldFly: no bet; Bit Crash: gain 0).
C10_RejectedStartOnlyResets ==
  [][/\ \A values \in FormInputs, direction \in {"up", "down"} :
          (handleGoldFlyTrade(values, direction) /\ StakeRejectCondition(values)) =>
            /\ UNCHANGED <<ledger, db, isTrading, goldFlyTimer, bitcrash>>
            /\ IF values.present /\ values.v > 0 /\ goldFlyState = "finished"
               THEN goldFlyState' = "idle" /\ goldFlyBet' = NoBet
               ELSE UNCHANGED <<goldFlyState, goldFlyBet>>
     /\ \A values \in FormInputs :
          (handleBitCrashFly(values) /\ StakeRejectCondition(values)) =>
            /\ UNCHANGED <<ledger, db, isTrading, goldfly, isTurboRound,
                           bitCrashIntervalRef, intervals, preRolls, nextId>>
            /\ IF values.present /\ values.v > 0
                  /\ bitCrashState \in {"blasted", "withdrawn"}
               THEN bitCrashState' = "idle" /\ gainPercent' = RZero
               ELSE UNCHANGED <<bitCrashState, gainPercent>>]_vars

\* A GoldFly bet above usdBalance has just been rejected with no round shown.
C10_Witness ==
  /\ username # NoUser
  /\ ev.k = "goldfly" /\ ~ev.accepted
  /\ ev.amount.present /\ ev.amount.v > 0
  /\ RGt(RInt(ev.amount.v), usdBalance)
  /\ goldFlyState = "idle"

\* The conditions under which C11 has a GoldFly bet accepted.
GoldFlyAcceptCondition(values) ==
  /\ goldFlyState = "idle"
  /\ values.present /\ values.v > 0
  /\ ~RGt(RInt(values.v), usdBalance)

\* C11: an accepted GoldFly bet puts the round to running and takes the stake
\* from usdBalance in the same step, and while the round stays running (in
\* the session of the bet) no step changes usdBalance: the stake is not given
\* back before the round is resolved.
C11_StakeHeldWhileRunning ==
  [][/\ \A values \in FormInputs, direction \in {"up", "down"} :
          (handleGoldFlyTrade(values, direction) /\ GoldFlyAcceptCondition(values)) =>
            /\ goldFlyState' = "running"
            /\ usdBalance' = RSub(usdBalance, RInt(values.v))
     /\ (/\ goldFlyState = "running" /\ goldFlyState' = "running"
         /\ username # NoUser /\ username' = username) =>
          usdBalance' = usdBalance]_vars

\* C12: when a GoldFly round is resolved (in the session of its bet),
\* usdBalance is, after a win, the balance from right before the stake was
\* taken plus stake * (GOLDFLY_PAYOUT_RATE - 1), and after a loss that balance
\* minus the stake.
C12_PayoutRelativeToPreBetBalance ==
  (/\ ev.k = "goldflyDone"
   /\ username # NoUser /\ hist.betSession = session) =>
     usdBalance =
       IF ev.accepted
       THEN RAdd(hist.preBet,
                 RMul(RInt(ev.amount.v), RSub(GOLDFLY_PAYOUT_RATE, RInt(1))))
       ELSE RSub(hist.preBet, RInt(ev.amount.v))

\* C13: a withdrawal from a running Bit Crash round puts the round to
\* withdrawn, stops its interval (no interval is left to tick), and adds to
\* usdBalance the stake that was taken at the start of the round plus
\* stake * gainPercent / 100, with gainPercent as it is at the withdrawal.
C13_WithdrawCreditsStakeAndGain ==
  [][handleBitCrashWithdraw =>
       /\ bitCrashState' = "withdrawn"
       /\ intervals' = {}
       /\ gainPercent' = gainPercent
       /\ \E t \in intervals :
            /\ t.id = bitCrashIntervalRef
            /\ usdBalance' =
                 RAdd(usdBalance,
                      RAdd(t.betAmount,
                           RMul(t.betAmount, RDiv(gainPercent, RInt(100)))))]_vars

\* A round has just been withdrawn from after it had gained something.
C13_Witness ==
  /\ username # NoUser
  /\ ev.k = "withdraw" /\ bitCrashState = "withdrawn"
  /\ RGt(gainPercent, RZero)

\* C14: a blast puts the Bit Crash round to blasted and stops its interval;
\* it credits nothing (usdBalance, the stored account and gainPercent stay as
\* they are); in a blasted or withdrawn round no interval is left to tick and
\* a blasted round cannot be withdrawn from; no step leads from blasted to
\* withdrawn or from withdrawn to blasted.
C14_BlastForfeitsStake ==
  /\ [](bitCrashState \in {"blasted", "withdrawn"} => intervals = {})
  /\ [](bitCrashState = "blasted" => ~ENABLED handleBitCrashWithdraw)
  /\ [][/\ \A t \in intervals, draw \in GainDraws :
             crashTick(t, draw, TRUE) =>
               /\ bitCrashState' = "blasted"
               /\ intervals' = {}
               /\ UNCHANGED <<ledger, db, gainPercent>>
        /\ bitCrashState = "blasted" => bitCrashState' # "withdrawn"
        /\ bitCrashState = "withdrawn" => bitCrashState' # "blasted"]_vars

\* A round has just blasted.
C14_Witness ==
  /\ username # NoUser
  /\ ev.k = "crashTick" /\ ev.accepted
  /\ bitCrashState = "blasted"

\* C15: at most one Bit Crash round is in its pre-roll or running at any time
\* (pre-roll timeouts and intervals together are at most one); a Fly click
\* while the last round is shown as blasted or withdrawn takes no stake and
\* starts no timer, and with a positive stake it puts the round back to idle
\* with gain 0; a pre-roll is started from idle only.
C15_OneCrashRoundAtATime ==
  /\ [](Len(preRolls) + Cardinality(intervals) <= 1)
  /\ [][/\ \A values \in FormInputs :
             (handleBitCrashFly(values) /\ bitCrashState \in {"blasted", "withdrawn"}) =>
               /\ UNCHANGED <<ledger, db, isTrading, preRolls, intervals>>
               /\ (values.present /\ values.v > 0) =>
                    bitCrashState' = "idle" /\ gainPercent' = RZero
        /\ Len(preRolls') > Len(preRolls) => bitCrashState = "idle"]_vars

\* After a first round has run and a Fly click has put it back to idle, a
\* second stake has just been accepted: its pre-roll is the only timer.
C15_Witness ==
  /\ username # NoUser
  /\ ev.k = "fly" /\ ev.accepted
  /\ nextId > 1
  /\ bitCrashState = "idle" /\ gainPercent = RZero
  /\ Len(preRolls) = 1 /\ intervals = {}

\* C16: goldFlyState only moves idle -> running -> finished -> idle; while a
\* round is running no click on Up or Down is taken and the bet of the round
\* stays as it is; a click while the last round is shown as finished takes no
\* stake and starts no timer, and with a positive stake it puts the round
\* back to idle.
C16_GoldFlyStateMachine ==
  /\ [](goldFlyState = "running" =>
          ~ENABLED (\E values \in FormInputs, direction \in {"up", "down"} :
                      handleGoldFlyTrade(values, direction)))
  /\ [][/\ goldFlyState' # goldFlyState =>
             <<goldFlyState, goldFlyState'>> \in
               {<<"idle", "running">>, <<"running", "finished">>,
                <<"finished", "idle">>}
        /\ goldFlyState = "running" => goldFlyBet' = goldFlyBet
        /\ \A values \in FormInputs, direction \in {"up", "down"} :
             (handleGoldFlyTrade(values, direction) /\ goldFlyState = "finished") =>
               /\ UNCHANGED <<ledger, db, isTrading, goldFlyTimer>>
               /\ (values.present /\ values.v > 0) =>
                    goldFlyState' = "idle" /\ goldFlyBet' = NoBet]_vars

\* After a first round was won (1000 + 40) and a click has put it back to
\* idle, a second bet has just been accepted.
C16_Witness ==
  /\ username # NoUser
  /\ ev.k = "goldfly" /\ ev.accepted
  /\ goldFlyState = "running"
  /\ hist.preBet = RAdd(RInt(DEFAULT_USD_BALANCE), RInt(40))

\* C17: GoldFly is never running while Bit Crash is in its pre-roll or
\* running; no buy or sell is waiting to be applied while either wager is in
\* its pre-roll or running; and isTrading is set for as long as a wager is in
\* its pre-roll or running or a trade is waiting.
C17_WagersAndTradesExclusive ==
  LET crashOn == preRolls # <<>> \/ intervals # {} \/ bitCrashState = "running"
      goldOn == goldFlyState = "running"
  IN  /\ ~(goldOn /\ crashOn)
      /\ tradeCalls # <<>> => ~goldOn /\ ~crashOn
      /\ (goldOn \/ crashOn \/ tradeCalls # <<>>) => isTrading

\* A GoldFly round is running while the Bit Crash tab is shown.
C17_Witness ==
  /\ username # NoUser
  /\ goldFlyState = "running" /\ tradeMode = "bitcrash"
  /\ isTrading /\ preRolls = <<>> /\ intervals = {}

\* C18: after every price tick, from whatever price and regime it started,
\* currentPrice is at least 0.9 * priceRegimes.LOW.range[0] = 31500, and so
\* above 0.
C18_PriceFloor ==
  ev.k = "tick" =>
    /\ RGe(currentPrice, RMul(RInt(priceRegimes.LOW.range[1]), Rat(9, 10)))
    /\ RGe(currentPrice, RInt(31500))
    /\ RGt(currentPrice, RZero)

\* A tick has just ended at the floor: no account and no draw leads to 31500
\* other than by the floor.
C18_Witness ==
  /\ username # NoUser
  /\ ev.k = "tick"
  /\ currentPrice = RInt(31500)

\* C19: while a user is logged in, whichever tab is shown, a further price
\* tick eventually happens (or the user logs out); stated for every number of
\* ticks below the number the specification grants.
C19_TicksInEveryTab ==
  \A n \in 0..(MaxTicks - 1) :
    (username # NoUser /\ ticks = n) ~> (ticks > n \/ username = NoUser)

\* C20: in every reachable state a position below the dust threshold of 1e-8
\* BTC has the average cost 0, whatever buys and sells of accepted amounts led
\* to it.
C20_DustHasNoAvgCost ==
  BelowDust(btcBalance) => avgBtcCost = RZero

\* C21: the result applied when a GoldFly round resolves is the outcome drawn
\* when the round started, combined with the direction of the bet: while the
\* round is running no new animation class is drawn and the drawn one does not
\* change, and the resolution is a win exactly when the class that was drawn
\* flies to the side of the bet.
C21_OutcomeDrawnOnce ==
  /\ [][(goldFlyState = "running" /\ goldFlyTimer' # NoTimer)
          => (goldFlyTimer # NoTimer /\ goldFlyTimer'.cls = goldFlyTimer.cls)]_vars
  /\ [][(goldFlyState = "running" /\ goldFlyState' = "finished")
          => (ev'.accepted <=>
                 \/ goldFlyBet.direction = "up"
                    /\ goldFlyTimer.cls = "animate-projectile-up"
                 \/ goldFlyBet.direction = "down"
                    /\ goldFlyTimer.cls = "animate-projectile-down")]_vars

\* C22: every GoldFly round that is running is eventually finished with the
\* busy flag released, whatever the user does in the meantime.
C22_RunningRoundResolves ==
  (goldFlyState = "running") ~> (goldFlyState = "finished" /\ ~isTrading)

\* C23: a Bit Crash start that was accepted is eventually running, a round
\* that is running is eventually blasted or withdrawn (the blast draw being
\* fair), and once a round is blasted or withdrawn no interval is live.
C23_CrashRoundEnds ==
  /\ (preRolls # <<>>) ~> (bitCrashState = "running")
  /\ (bitCrashState = "running") ~> (bitCrashState \in {"blasted", "withdrawn"})
  /\ [](bitCrashState \in {"blasted", "withdrawn"} => intervals = {})

\* A round that was started in the behaviour, after its pre-roll, has blasted.
C23_Witness ==
  /\ bitCrashState = "blasted" /\ intervals = {}
  /\ nextId > 2 /\ ev.k = "crashTick" /\ ev.accepted

\* C24: from an accepted Bit Crash start to the end of the 3 s pre-roll the
\* stake is not at risk: the start deducts nothing, while the pre-roll is
\* pending no round is running, no interval is live and usdBalance changes
\* only by a settlement or a change of user; the pre-roll ends only when its
\* delay has passed, and that step deducts the stake, sets the round running
\* at gain 0 and starts the interval, so that the first gain tick comes after.
C24_PreRollKeepsStake ==
  /\ [](preRolls # <<>> => (bitCrashState # "running" /\ intervals = {}))
  /\ [][Len(preRolls') > Len(preRolls)
          => (usdBalance' = usdBalance /\ bitCrashState' # "running")]_vars
  /\ [][(preRolls # <<>> /\ Len(preRolls') = Len(preRolls))
          => (usdBalance' = usdBalance
              \/ ev'.k \in {"settle", "login", "logout"})]_vars
  /\ [][Len(preRolls') < Len(preRolls)
          => /\ Head(preRolls).left = 0
             /\ usdBalance' = RSub(usdBalance, Head(preRolls).betAmount)
             /\ bitCrashState' = "running" /\ gainPercent' = RZero
             /\ intervals = {} /\ Cardinality(intervals') = 1]_vars
  /\ [][gainPercent' # gainPercent /\ gainPercent' # RZero => intervals # {}]_vars

\* The pre-roll of a stake of 100 has ended: the stake is deducted now.
C24_Witness ==
  /\ ev.k = "deduct" /\ bitCrashState = "running" /\ username # NoUser
  /\ usdBalance = RSub(db[username].usdBalance, RInt(100))

\* The step table of the two modes, by the band the gain lies in.
StepTable(isTurbo, g) ==
  IF isTurbo
  THEN CASE RLe(g, RInt(80)) -> RZero
         [] RGt(g, RInt(80)) /\ RLt(g, RInt(90)) -> Rat(1, 4)
         [] RGe(g, RInt(90)) -> RInt(1)
  ELSE CASE RLt(g, RInt(15)) -> Rat(35, 1000)
         [] RGe(g, RInt(15)) /\ RLt(g, RInt(30)) -> Rat(22, 100)
         [] RGe(g, RInt(30)) /\ RLt(g, RInt(70)) -> Rat(43, 100)
         [] RGe(g, RInt(70)) /\ RLt(g, RInt(90)) -> Rat(55, 100)
         [] RGe(g, RInt(90)) -> Rat(99, 100)

\* C25: the blast chance a callback of the interval uses is the step table of
\* its mode at the gain the callback has just accumulated, and it is not
\* smaller than the chance at the gain before the callback.
C25_BlastChanceIsStepTable ==
  \A t \in intervals, draw \in GainDraws :
    LET newGain == RAdd(gainPercent, draw) IN
    /\ blastChance(t.isTurbo, newGain) = StepTable(t.isTurbo, newGain)
    /\ RLe(blastChance(t.isTurbo, gainPercent), blastChance(t.isTurbo, newGain))

\* A callback has just taken a turbo round to a gain of exactly 90.
C25_Witness ==
  /\ ev.k = "crashTick" /\ ~ev.accepted /\ crashTicks > MaxCrashTicks - CrashSteps
  /\ bitCrashState = "running" /\ isTurboRound
  /\ \E t \in intervals : t.isTurbo
  /\ gainPercent = RInt(90)

\* C26: in a turbo round the blast is certain once the gain has reached 90: no
\* callback of a turbo round moves the gain to 90 or beyond and leaves the
\* round running.
C26_TurboBlastsAtNinety ==
  [][(bitCrashState = "running" /\ (\E t \in intervals : t.isTurbo)
      /\ gainPercent' # gainPercent)
       => RLt(gainPercent', RInt(90))]_vars

\* C27: a turbo round does not blast while its gain is at or below 80: the
\* callback that blasts a turbo round has accumulated a gain above 80.
C27_TurboNeverBlastsBelowZone ==
  [][(bitCrashState = "running" /\ bitCrashState' = "blasted"
      /\ (\E t \in intervals : t.isTurbo))
       => (\E draw \in GainDraws : RGt(RAdd(gainPercent, draw), RInt(80)))]_vars

\* The round that was running at the start has blasted at a displayed gain of
\* 80, which only the turbo rounds that start at 79.5 and 79.75 can reach.
C27_Witness ==
  /\ bitCrashState = "blasted" /\ ev.k = "crashTick" /\ ev.accepted
  /\ nextId = 2 /\ gainPercent = RInt(80)

\* C28: the trend bias a price tick adds goes by the regime and the trend that
\* are in force after the regime transition and the trend refresh of that same
\* tick: upward iff they are MID and UP, downward iff MID and DOWN, none
\* otherwise.
C28_BiasFollowsNewRegimeAndTrend ==
  [][ticks' # ticks => ev'.type = TrendBias(priceRegime', trend')]_vars

\* The price lies outside the band of the regime.
OutsideBand(p, regime) ==
  \/ RLt(p, RInt(priceRegimes[regime].range[1]))
  \/ RGt(p, RInt(priceRegimes[regime].range[2]))

\* C29: an excursion of the price out of the band of the active regime lasts
\* one tick: when a tick has left the price outside the band of its regime,
\* the next tick does not.
C29_ExcursionsLastOneTick ==
  [][(ev.k = "tick" /\ ticks' # ticks /\ OutsideBand(currentPrice, priceRegime))
       => ~OutsideBand(currentPrice', priceRegime')]_vars

\* C30: a price tick changes the regime only between MID and LOW or between
\* MID and HIGH: after a tick in LOW the regime is LOW or MID, after a tick in
\* HIGH it is HIGH or MID, and no tick goes from LOW to HIGH or back.
C30_RegimeChangesThroughMid ==
  [][ticks' # ticks
       => /\ priceRegime = "LOW" => priceRegime' \in {"LOW", "MID"}
          /\ priceRegime = "HIGH" => priceRegime' \in {"HIGH", "MID"}
          /\ priceRegime = "MID" => priceRegime' \in {"LOW", "MID", "HIGH"}]_vars

\* The first tick of an account that was left at 100000 (HIGH) has gone to MID.
C30_Witness ==
  /\ ev.k = "tick" /\ ticks = MaxTicks - TickSteps + 1
  /\ username # NoUser /\ db[username].lastPrice = RInt(100000)
  /\ priceRegime = "MID"

\* C31: a price tick that changes the regime sets the trend to SIDEWAYS and
\* the duration counter to 0 before its trend logic runs: after a tick that
\* changed the regime to LOW or HIGH the trend is SIDEWAYS and the counter is
\* 0, and a tick that changed the regime to MID has drawn a new trend and a
\* new duration, whatever the counter was before.
C31_RegimeChangeResetsTrend ==
  [][(ticks' # ticks /\ priceRegime' # priceRegime)
       => IF priceRegime' = "MID"
          THEN trendUpdatesLeft' \in 50..149
          ELSE trend' = "SIDEWAYS" /\ trendUpdatesLeft' = 0]_vars

\* The second tick of an account that was left at 33000 (LOW) has gone from
\* MID to HIGH: the first tick went to MID and drew a duration of 50 or more.
C31_Witness ==
  /\ ev.k = "tick" /\ ticks = MaxTicks - TrendSteps + 2
  /\ username # NoUser /\ db[username].lastPrice = RInt(33000)
  /\ priceRegime = "HIGH" /\ trend = "SIDEWAYS" /\ trendUpdatesLeft = 0

\* C32: after every price tick that ends in a regime other than MID the trend
\* is SIDEWAYS, and a tick that stays in LOW or in HIGH leaves the duration
\* counter as it was.
C32_TrendOnlyInMid ==
  [][(ticks' # ticks /\ priceRegime' # "MID")
       => /\ trend' = "SIDEWAYS"
          /\ priceRegime' = priceRegime => trendUpdatesLeft' = trendUpdatesLeft]_vars

\* The first tick of an account that was left at 33000 (LOW) has stayed in
\* LOW, the counter being at 2.
C32_Witness ==
  /\ ev.k = "tick" /\ ticks = MaxTicks - TrendSteps + 1
  /\ username # NoUser /\ db[username].lastPrice = RInt(33000)
  /\ priceRegime = "LOW" /\ trend = "SIDEWAYS" /\ trendUpdatesLeft = 2

\* C33: on a price tick that starts and ends in MID, if the duration counter
\* is at 0 or below a trend out of UP, DOWN and SIDEWAYS and a duration of 50
\* to 149 are drawn, and otherwise the trend stays and the counter goes down
\* by exactly 1; the counter is within 0..149 in every state.
C33_TrendLastsItsDuration ==
  /\ [][(ticks' # ticks /\ priceRegime = "MID" /\ priceRegime' = "MID")
          => IF trendUpdatesLeft <= 0
             THEN trend' \in Trends /\ trendUpdatesLeft' \in 50..149
             ELSE trend' = trend /\ trendUpdatesLeft' = trendUpdatesLeft - 1]_vars
  /\ [](trendUpdatesLeft \in 0..149)

\* Two ticks of an account that was left at 65000 (MID) have stayed in MID
\* and counted an UP trend down from 149 to 147.
C33_Witness ==
  /\ ev.k = "tick" /\ ticks = MaxTicks - TrendSteps + 2
  /\ username # NoUser /\ db[username].lastPrice = RInt(INITIAL_PRICE)
  /\ priceRegime = "MID" /\ trend = "UP" /\ trendUpdatesLeft = 147

\* The prices the movement of the next tick can lead to before the boundary
\* check, and the regimes its transition can lead to.
MovedPrices ==
  {RInt(t) : t \in
     {u \in TickDraws.targets :
        \E biasRand \in TickDraws.units :
          PercentageChanges({u}, currentPrice,
            Drift(currentPrice, priceRegime, trend, avgBtcCost, btcBalance,
                  biasRand, RZero)) # {}}}
NextRegimes ==
  {RegimeAfter(priceRegime, leave, midRand) :
     leave \in BOOLEAN,
     midRand \in IF priceRegime = "MID" THEN {"LOW", "HIGH", "MID"} ELSE {"MID"}}

\* C34: the boundary check of a tick moves a price outside the band of the
\* regime towards the nearer bound by min(0.5, relative overshoot) of the
\* overshoot: the result lies between the moved price and the bound, not
\* beyond the bound and not farther from it; a price inside the band is left
\* as it is.  Stated for every price and regime the next tick can lead to.
C34_PullBackTowardsBand ==
  username # NoUser =>
    \A moved \in MovedPrices, key \in NextRegimes :
      LET minRange == RInt(priceRegimes[key].range[1])
          maxRange == RInt(priceRegimes[key].range[2])
          pulled == BoundaryCheck(moved, key)
      IN  /\ RLt(moved, minRange) =>
               /\ pulled = RAdd(moved, RMul(RSub(minRange, moved),
                              RMin(Rat(1, 2), RDiv(RSub(minRange, moved), minRange))))
               /\ RLe(moved, pulled) /\ RLe(pulled, minRange)
          /\ RGt(moved, maxRange) =>
               /\ pulled = RSub(moved, RMul(RSub(moved, maxRange),
                              RMin(Rat(1, 2), RDiv(RSub(moved, maxRange), maxRange))))
               /\ RGe(moved, pulled) /\ RGe(pulled, maxRange)
          /\ (RGe(moved, minRange) /\ RLe(moved, maxRange)) => pulled = moved

\* The first tick of an account that was left at 65000 has gone to LOW and
\* moved the price to 62400, 1400 above the band: the boundary check has
\* taken 1400 * 1400 / 61000 off.
C34_Witness ==
  /\ ev.k = "tick" /\ ticks = MaxTicks - TickSteps + 1
  /\ username # NoUser /\ db[username].lastPrice = RInt(INITIAL_PRICE)
  /\ priceRegime = "LOW"
  /\ currentPrice = RSub(RInt(62400), Rat(1400 * 1400, 61000))

\* Positions without an unrealized gain at the given price: no BTC with any
\* average cost, and BTC bought at the price or above it.
NoGainPositions(p) ==
  {[avg |-> RZero, btc |-> RZero], [avg |-> RInt(1), btc |-> RZero],
   [avg |-> RMul(p, RInt(2)), btc |-> RZero],
   [avg |-> p, btc |-> RInt(1)], [avg |-> RMul(p, RInt(2)), btc |-> Rat(1, 325)]}

\* C35: the downward pressure enters a tick only when the unrealized result
\* (price - avgBtcCost) * btcBalance is above 0 and BTC is held, and then it
\* only lowers the price: for every draw the next tick can make, the price
\* it leads to is the same for every position without BTC or without an
\* unrealized gain, whatever its average cost (and usdBalance does not enter
\* the movement at all), and with an unrealized gain it is at most that price.
C35_PressureOnlyOnGains ==
  username # NoUser =>
    \A key \in {RegimeAfter(priceRegime, leave, "MID") : leave \in GainsDraws.leave},
       biasRand \in GainsDraws.units, pullRand \in GainsDraws.units :
      \A percentageChange \in
           PercentageChanges(GainsDraws.targets, currentPrice,
             Drift(currentPrice, priceRegime, trend, avgBtcCost, btcBalance,
                   biasRand, pullRand)) :
        LET unrealizedPL == RMul(RSub(currentPrice, avgBtcCost), btcBalance)
            gain == RGt(unrealizedPL, RZero) /\ RGt(btcBalance, RZero)
            own == PriceAfter(currentPrice, priceRegime, trend, key, avgBtcCost,
                              btcBalance, percentageChange, biasRand, pullRand)
            Other(pos) == PriceAfter(currentPrice, priceRegime, trend, key, pos.avg,
                                     pos.btc, percentageChange, biasRand, pullRand)
        IN  \A pos \in NoGainPositions(currentPrice) :
              IF gain THEN RLe(own, Other(pos)) ELSE own = Other(pos)

\* The first tick of the account that holds 1/325 BTC bought at 58500 has
\* left the price at 65000: the tick adds no trend bias (the page starts with
\* a SIDEWAYS trend) and its percentage change is not 0, so it is the
\* downward pressure that has taken the rise away.
C35_Witness ==
  /\ ev.k = "tick" /\ ev.type = "none" /\ ticks = MaxTicks - GainSteps + 1
  /\ username # NoUser /\ avgBtcCost = RInt(58500) /\ btcBalance = Rat(1, 325)
  /\ currentPrice = RInt(INITIAL_PRICE) /\ priceRegime = "MID"

\* C36: in every state of a logged-in session usdBalance is at least 0,
\* whatever buys, sells, settlements, extreme-mode bets, stakes and payouts
\* led to it.
C36_CashNeverNegative ==
  username # NoUser => RGe(usdBalance, RZero)

\* C37: btcBalance is at least 0 in every state.  At most one handleTrade
\* call is in its 750 ms await; every sell that is waiting passed its check
\* on the price and the balance it holds; and the step that applies a sell
\* computes it from that same price and balance, whatever ticks and
\* settlements came during the await.
C37_SellsOnTheirSnapshot ==
  /\ [](RGe(btcBalance, RZero))
  /\ [](Len(tradeCalls) <= 1)
  /\ [](\A i \in 1..Len(tradeCalls) :
          (tradeCalls[i].type = "sell" /\ ~tradeCalls[i].extreme)
            => RLe(RDiv(tradeCalls[i].amountInUsd, tradeCalls[i].currentPrice),
                   tradeCalls[i].btcBalance))
  /\ [][(ev'.k = "apply" /\ ev'.type = "sell" /\ Len(tradeCalls') < Len(tradeCalls))
          => LET c == Head(tradeCalls)
             IN  /\ btcBalance' = RSub(c.btcBalance,
                                       RDiv(c.amountInUsd, c.currentPrice))
                 /\ usdBalance' = RAdd(c.usdBalance, c.amountInUsd)]_vars

\* A sell of 100 by the account that holds 1/325 BTC has been applied at
\* 65000, the price of the click, while the price is 62400: a tick came
\* during the await.
C37_Witness ==
  /\ ev.k = "apply" /\ ev.type = "sell" /\ username # NoUser
  /\ currentPrice = RInt(62400)
  /\ btcBalance = RSub(Rat(1, 325), RDiv(RInt(100), RInt(INITIAL_PRICE)))

\* C38: a GoldFly round is resolved at most once.  The resolution runs only
\* for a round that is running and whose 5 s have passed, credits the payout
\* once or nothing, and leaves the round finished with no timeout and no
\* measured altitude pending, so that the change of usdBalance it makes does
\* not resolve the round again; a round is running again only after a new
\* stake has been taken.
C38_RoundResolvedOnce ==
  /\ [][ev'.k = "goldflyDone"
          => /\ goldFlyState = "running" /\ goldFlyTimer.left = 0
             /\ goldFlyState' = "finished" /\ goldFlyTimer' = NoTimer
             /\ usdBalance' = IF ev'.accepted
                               THEN RAdd(usdBalance,
                                         RMul(goldFlyBet.amount, GOLDFLY_PAYOUT_RATE))
                               ELSE usdBalance]_vars
  /\ [](goldFlyState # "running" => goldFlyTimer = NoTimer)
  /\ [][(goldFlyState # "running" /\ goldFlyState' = "running")
          => (ev'.k = "goldfly" /\ ev'.accepted
              /\ usdBalance' = RSub(usdBalance, goldFlyBet'.amount))]_vars

\* Two rounds with a stake of 100 have been won, one after the other, by a
\* new account: 1000 - 100 + 140 - 100 + 140.
C38_Witness ==
  /\ ev.k = "goldflyDone" /\ ev.accepted /\ username # NoUser
  /\ goldFlyState = "finished" /\ ~isTrading /\ goldFlyTimer = NoTimer
  /\ usdBalance = RInt(1080)

\* C39: while the portfolio is worth 1,000,000 or more, Buy and Sell make no
\* ledger trade: handleTrade rejects every sell, a call it accepts is a buy
\* of an amount within usdBalance that is held as a bet, no call taken in
\* extreme mode is applied as a trade, and the step that resolves the bet
\* changes usdBalance by +1.9 times the amount or by minus the amount and
\* leaves btcBalance, avgBtcCost and todaysPL as they are.
C39_ExtremeModeBets ==
  /\ [](isExtremeMode => \A values \in FormInputs : ~TradeAccepted(values, "sell"))
  /\ [][(isExtremeMode /\ ev'.k = "trade" /\ ev'.accepted)
          => /\ ev'.type = "buy" /\ RLe(RInt(ev'.amount.v), usdBalance)
             /\ Len(tradeCalls') = Len(tradeCalls) + 1
             /\ tradeCalls'[Len(tradeCalls')].extreme
             /\ UNCHANGED <<db, ledger>>]_vars
  /\ [][(isExtremeMode /\ ev'.k = "trade" /\ ~ev'.accepted)
          => UNCHANGED <<db, ledger, isTrading, tradeCalls, settlements>>]_vars
  /\ [][ev'.k = "apply" => ~Head(tradeCalls).extreme]_vars
  /\ [][ev'.k = "extreme"
          => /\ usdBalance' = RAdd(usdBalance,
                                  IF ev'.accepted
                                  THEN RMul(Head(tradeCalls).amountInUsd, Rat(19, 10))
                                  ELSE RNeg(Head(tradeCalls).amountInUsd))
             /\ UNCHANGED <<btcBalance, avgBtcCost, todaysPL>>]_vars

====
